---- MODULE Spec2Model ----
(***************************************************************************)
(* StudyStreak: the calendar aggregator and smart scheduler of             *)
(* calendar_integration.py and the habit tracker of dashboard.py.          *)
(*                                                                         *)
(* Time is the naive local wall clock of datetime.now(), in minutes since  *)
(* Monday 00:00 of week 0, so weekday() and replace(hour=...) are          *)
(* arithmetic.  Scores and time-of-day weights are in tenths (8 = 0.8).    *)
(***************************************************************************)
EXTENDS Integers, Sequences, FiniteSets, TLC

VARIABLES
    google_service,   \* CalendarIntegration.google_service is set (not None)
    sched_op,         \* the scheduler/calendar operation that ran last
    call,             \* the arguments and remote responses of that operation
    all_events,       \* what get_all_events returned to it
    recommendations,  \* what find_optimal_study_times returned
    sched_raised,     \* find_optimal_study_times raised instead of returning
    sessions,         \* rows fetched by track_habit_progress, created_at ASC
    habit_pc,         \* position of the habit-progress request
    h_idx,            \* index of the next row of the streak walk
    current_streak,   \* local of track_habit_progress
    last_date,        \* local of track_habit_progress (NoDate = None)
    progress,         \* dict returned by track_habit_progress
    rewards,          \* list returned by get_milestone_rewards
    http_status,      \* status of the habit-progress response (0 = none yet)
    plan_call,        \* arguments of the last suggest_study_sessions_from_work call
    suggestions,      \* the list it returned
    plan_raised,      \* it raised instead of returning
    classified,       \* its locals study_type, duration and subject
    users,            \* rows of the users table, in id order
    login_session,    \* the Flask session of the one client
    user_resp,        \* the last account request and its response
    study_sessions,   \* rows of the study_sessions table, in id order
    next_session_id,  \* the AUTOINCREMENT sequence of study_sessions
    calendar_events,  \* events inserted into the remote calendar
    session_resp,     \* the last study-session request and its response
    streaks,          \* rows of the streaks table, in id order
    clock,            \* the day datetime.now() falls on
    streak_reqs,      \* the update_streak calls in flight, one per connection
    streak_lock,      \* the connection holding the database write lock (0 = none)
    streak_calls,     \* per (user_id, group_id): update_streak calls that returned True
    streak_resp,      \* the last streak request and its response
    groups,           \* rows of the groups table, in id order
    group_members,    \* rows of the group_members table, in id order
    group_resp        \* the last group request and its response

sched_vars == <<google_service, sched_op, call, all_events, recommendations, sched_raised>>
habit_vars == <<sessions, habit_pc, h_idx, current_streak, last_date, progress, rewards, http_status>>
plan_vars == <<plan_call, suggestions, plan_raised, classified>>
user_vars == <<users, login_session, user_resp>>
session_vars == <<study_sessions, next_session_id, calendar_events, session_resp>>
streak_vars == <<streaks, clock, streak_reqs, streak_lock, streak_calls, streak_resp>>
group_vars == <<groups, group_members, group_resp>>
vars == <<google_service, sched_op, call, all_events, recommendations, sched_raised,
          sessions, habit_pc, h_idx, current_streak, last_date, progress, rewards, http_status,
          plan_call, suggestions, plan_raised, classified, users, login_session, user_resp,
          study_sessions, next_session_id, calendar_events, session_resp,
          streaks, clock, streak_reqs, streak_lock, streak_calls, streak_resp,
          groups, group_members, group_resp>>

-----------------------------------------------------------------------------
(* Bounds of the model. *)

MaxHours == 2        \* longest supplied preferred_study_hours list
MaxFeeds == 2        \* most subscription-feed URLs of a calendar-events call
MaxSessions == 5     \* longest session log of the habit tracker
MaxRun == 72         \* longest log of daily completed sessions
MaxRows == 3         \* most study sessions ever created
MaxRequests == 2     \* most update_streak calls in flight at once
MaxCalls == 3        \* most update_streak calls of a run that returned True
MaxDay == 2          \* last day the clock reaches
MaxGroups == 2       \* most groups ever created
MaxMembers == 4      \* most membership rows ever inserted

-----------------------------------------------------------------------------
(* Program constants. *)

TopN == 10                   \* available_slots[:10]
DefaultStudyDuration == 120  \* study_duration: int = 120
DefaultDaysAhead == 7        \* days_ahead: int = 7
DayBonus == 2                \* score += 0.2
ScoreCap == 10               \* min(score, 1.0)
DefaultMorning == 8
DefaultMidday == 6
DefaultAfternoon == 7
DefaultEvening == 5
session_duration == 120      \* length of each part of a split plan
SplitAbove == 180            \* if duration > 180
SplitConfidence == 8         \* 'confidence_score': 0.8
SingleConfidence == 9        \* 'confidence_score': 0.9
habit_formation_days == 70
OnTrackStreak == 5           \* current_streak >= 5
Streak7 == 7                 \* thresholds of get_milestone_rewards
Streak21 == 21
Streak30 == 30
Days50 == 50

MinutesPerDay == 24 * 60
DefaultHours == <<9, 14, 19>>
DefaultDays == {0, 1, 2, 3, 4}
DefaultSubjects == <<"General Study", "Math", "Science", "Literature">>
NoDate == -1                 \* last_date = None
NoGroup == 0                 \* group_id = None

-----------------------------------------------------------------------------
(* Python values. *)

EmptyDict == [k \in {} |-> 0]

\* dict.get(key, default)
Get(d, key, default) == IF key \in DOMAIN d THEN d[key] ELSE default

MergeStoredWins(a, b) == [k \in (DOMAIN a) \cup (DOMAIN b) |-> IF k \in DOMAIN a THEN a[k] ELSE b[k]]

\* {**a, **b}
Merge(a, b) == [k \in (DOMAIN a) \cup (DOMAIN b) |-> IF k \in DOMAIN b THEN b[k] ELSE a[k]]

Min(a, b) == IF a < b THEN a ELSE b
Max(a, b) == IF a > b THEN a ELSE b

\* Text of a timestamp field, by what datetime.fromisoformat makes of it.
NoneVal == [kind |-> "none", t |-> 0]                  \* Python None
BadText == [kind |-> "bad", t |-> 0]                   \* not ISO text
DateText(day) == [kind |-> "date", t |-> day]          \* 'YYYY-MM-DD'
NaiveText(t) == [kind |-> "naive", t |-> t]            \* 'YYYY-MM-DDTHH:MM:SS'
AwareText(t) == [kind |-> "aware", t |-> t]            \* ... with 'Z' or a UTC offset

ParseError == [ok |-> FALSE, aware |-> FALSE, t |-> 0]

\* datetime.fromisoformat(text.replace('Z', '+00:00')): a date alone is
\* midnight of that day, an offset or 'Z' makes the datetime aware.
FromIsoformat(text) ==
    CASE text.kind = "date" -> [ok |-> TRUE, aware |-> FALSE, t |-> text.t * MinutesPerDay]
      [] text.kind = "naive" -> [ok |-> TRUE, aware |-> FALSE, t |-> text.t]
      [] text.kind = "aware" -> [ok |-> TRUE, aware |-> TRUE, t |-> text.t]
      [] OTHER -> ParseError

\* datetime.fromisoformat(event[key].replace(...)) inside try/except: a missing
\* key (KeyError), None (AttributeError) and bad text (ValueError) all fail.
ParseField(event, key) ==
    IF key \notin DOMAIN event THEN ParseError
    ELSE FromIsoformat(event[key])

Weekday(t) == (t \div MinutesPerDay) % 7
DayStart(t) == (t \div MinutesPerDay) * MinutesPerDay

-----------------------------------------------------------------------------
(* CalendarIntegration *)

Put(d, key, val) == [k \in (DOMAIN d) \cup {key} |-> IF k = key THEN val ELSE d[k]]

Text(n) == [kind |-> "text", t |-> n]

\* One event of the Google response, as the list comprehension maps it; the
\* value of 'start' is event['start'].get('dateTime', event['start'].get('date')).
GoogleEvent(item) ==
    [title |-> Get(item, "summary", Text(0)),
     start |-> Get(item.start, "dateTime", Get(item.start, "date", NoneVal)),
     end |-> Get(item.end, "dateTime", Get(item.end, "date", NoneVal)),
     source |-> "google"]

\* get_google_events: no handle gives [] without a request; a failed request
\* or an item without 'start' or 'end' (KeyError) gives [] for the whole source.
GetGoogleEvents(service, resp) ==
    IF ~service THEN <<>>
    ELSE IF ~resp.ok THEN <<>>
    ELSE IF \E i \in 1..Len(resp.items) :
                "start" \notin DOMAIN resp.items[i] \/ "end" \notin DOMAIN resp.items[i]
         THEN <<>>
    ELSE [i \in 1..Len(resp.items) |-> GoogleEvent(resp.items[i])]

\* The line loop of parse_ical_url.
RECURSIVE ScanLines(_, _, _, _)
ScanLines(lines, i, events, current_event) ==
    IF i > Len(lines) THEN events
    ELSE LET line == lines[i] IN
         CASE line.tag = "BEGIN:VEVENT" ->
                ScanLines(lines, i + 1, events, EmptyDict)
           [] line.tag = "END:VEVENT" ->
                ScanLines(lines, i + 1,
                          IF DOMAIN current_event # {} THEN Append(events, current_event)
                                                       ELSE events,
                          EmptyDict)
           [] line.tag = "SUMMARY:" ->
                ScanLines(lines, i + 1, events, Put(current_event, "title", line.val))
           [] line.tag = "DTSTART:" ->
                ScanLines(lines, i + 1, events, Put(current_event, "start", line.val))
           [] line.tag = "DTEND:" ->
                ScanLines(lines, i + 1, events, Put(current_event, "end", line.val))
           [] line.tag = "DESCRIPTION:" ->
                ScanLines(lines, i + 1, events, Put(current_event, "description", line.val))
           [] OTHER ->
                ScanLines(lines, i + 1, events, current_event)

\* start_time <= event_start <= end_time; comparing the naive window with an
\* aware datetime raises TypeError, which the bare except turns into a skip.
InWindow(event, start_time, end_time) ==
    LET event_start == ParseField(event, "start") IN
    /\ event_start.ok
    /\ ~event_start.aware
    /\ start_time <= event_start.t
    /\ event_start.t <= end_time

\* The filter loop of parse_ical_url.
RECURSIVE FilterEvents(_, _, _, _, _)
FilterEvents(events, i, filtered_events, start_time, end_time) ==
    IF i > Len(events) THEN filtered_events
    ELSE FilterEvents(events, i + 1,
                      IF InWindow(events[i], start_time, end_time)
                      THEN Append(filtered_events, Put(events[i], "source", "ical"))
                      ELSE filtered_events,
                      start_time, end_time)

\* parse_ical_url: a failed fetch (network error, HTTP error status) gives [].
ParseIcalUrl(resp, start_time, end_time) ==
    IF ~resp.ok THEN <<>>
    ELSE FilterEvents(ScanLines(resp.lines, 1, <<>>, EmptyDict), 1, <<>>, start_time, end_time)

\* The feed loop of get_all_events: f_resps[i] is what ical_urls[i] answers.
RECURSIVE ExtendWithFeeds(_, _, _, _, _)
ExtendWithFeeds(events, f_resps, i, start_time, end_time) ==
    IF i > Len(f_resps) THEN events
    ELSE ExtendWithFeeds(events \o ParseIcalUrl(f_resps[i], start_time, end_time),
                         f_resps, i + 1, start_time, end_time)

GetAllEventsAborting(service, g_resp, f_resps, start_time, end_time) ==
    IF \E i \in 1..Len(f_resps) : ~f_resps[i].ok THEN <<>>
    ELSE ExtendWithFeeds(GetGoogleEvents(service, g_resp), f_resps, 1, start_time, end_time)

GetAllEvents(service, g_resp, f_resps, start_time, end_time) ==
    ExtendWithFeeds(GetGoogleEvents(service, g_resp), f_resps, 1, start_time, end_time)

-----------------------------------------------------------------------------
(* SmartScheduler.find_optimal_study_times *)

\* The busy_times loop: an event whose start or end does not parse is skipped.
RECURSIVE BusyTimes(_, _)
BusyTimes(existing_events, i) ==
    IF i > Len(existing_events) THEN <<>>
    ELSE LET event_start == ParseField(existing_events[i], "start")
             event_end == ParseField(existing_events[i], "end")
         IN  IF event_start.ok /\ event_end.ok
             THEN <<[start |-> event_start, end |-> event_end]>> \o BusyTimes(existing_events, i + 1)
             ELSE BusyTimes(existing_events, i + 1)

\* slot_start < busy_end and slot_end > busy_start, on naive datetimes.
OverlapsStartOnly(slot_start, slot_end, busy_start, busy_end) ==
    busy_start <= slot_start /\ slot_start < busy_end

Overlaps(slot_start, slot_end, busy_start, busy_end) ==
    slot_start < busy_end /\ slot_end > busy_start

\* The conflict loop for one slot.  The slot is naive; comparing it with an
\* aware datetime raises TypeError, and nothing here catches it.  'and'
\* evaluates slot_end > busy_start only when slot_start < busy_end.
RECURSIVE ScanBusy(_, _, _, _)
ScanBusy(slot_start, slot_end, busy_times, i) ==
    IF i > Len(busy_times) THEN "free"
    ELSE LET busy_start == busy_times[i].start
             busy_end == busy_times[i].end
         IN  IF busy_end.aware THEN "TypeError"
             ELSE IF ~(slot_start < busy_end.t) THEN ScanBusy(slot_start, slot_end, busy_times, i + 1)
             ELSE IF busy_start.aware THEN "TypeError"
             ELSE IF Overlaps(slot_start, slot_end, busy_start.t, busy_end.t) THEN "conflict"
             ELSE ScanBusy(slot_start, slot_end, busy_times, i + 1)

TimeOfDayWeightLateMorning(hour, preferences) ==
    IF 6 <= hour /\ hour <= 10 THEN Get(preferences, "morning_preference", DefaultMorning)
    ELSE IF 11 <= hour /\ hour <= 14 THEN Get(preferences, "midday_preference", DefaultMidday)
    ELSE IF 15 <= hour /\ hour <= 18 THEN Get(preferences, "afternoon_preference", DefaultAfternoon)
    ELSE Get(preferences, "evening_preference", DefaultEvening)

\* The hour bucket of _calculate_confidence_score and its weight.
TimeOfDayWeight(hour, preferences) ==
    IF 6 <= hour /\ hour <= 9 THEN Get(preferences, "morning_preference", DefaultMorning)
    ELSE IF 10 <= hour /\ hour <= 14 THEN Get(preferences, "midday_preference", DefaultMidday)
    ELSE IF 15 <= hour /\ hour <= 18 THEN Get(preferences, "afternoon_preference", DefaultAfternoon)
    ELSE Get(preferences, "evening_preference", DefaultEvening)

UncappedScore(score) == score

CapScore(score) == Min(score, ScoreCap)

\* _calculate_confidence_score
CalculateConfidenceScore(slot_time, preferences) ==
    LET hour == (slot_time % MinutesPerDay) \div 60
        base == TimeOfDayWeight(hour, preferences)
        score == IF Weekday(slot_time) \in Get(preferences, "preferred_days", DefaultDays)
                 THEN base + DayBonus ELSE base
    IN  CapScore(score)

\* _suggest_subject: subjects[day_index % len(subjects)]
SuggestSubject(slot_time, preferences) ==
    LET subjects == Get(preferences, "subjects", DefaultSubjects)
    IN  subjects[(Weekday(slot_time) % Len(subjects)) + 1]

DayOffsetsFromTomorrow(days_ahead) == 1..(days_ahead - 1)

\* range(days_ahead)
DayOffsets(days_ahead) == 0..(days_ahead - 1)

SlotStartKeepMinutes(start_time, day_offset, hour) ==
    DayStart(start_time + day_offset * MinutesPerDay) + hour * 60 + (start_time % 60)

\* The slot the inner loop builds for (day_offset, hour).
SlotStart(start_time, day_offset, hour) ==
    DayStart(start_time + day_offset * MinutesPerDay) + hour * 60

\* The two nested loops, from (day_offset, position h in preferred_hours) on:
\* [raised, slots], slots in generation order.
RECURSIVE AvailableSlots(_, _, _, _, _, _, _)
AvailableSlots(start_time, preferences, study_duration, days_ahead, busy_times, day_offset, h) ==
    LET preferred_hours == Get(preferences, "preferred_study_hours", DefaultHours)
        preferred_days == Get(preferences, "preferred_days", DefaultDays)
        current_date == start_time + day_offset * MinutesPerDay
    IN
    IF day_offset > days_ahead - 1 THEN [raised |-> FALSE, slots |-> <<>>]
    ELSE IF day_offset \notin DayOffsets(days_ahead)
            \/ Weekday(current_date) \notin preferred_days
            \/ h > Len(preferred_hours)
    THEN AvailableSlots(start_time, preferences, study_duration, days_ahead, busy_times,
                        day_offset + 1, 1)
    ELSE LET slot_start == SlotStart(start_time, day_offset, preferred_hours[h])
             slot_end == slot_start + study_duration
             scan == ScanBusy(slot_start, slot_end, busy_times, 1)
             rest == AvailableSlots(start_time, preferences, study_duration, days_ahead,
                                    busy_times, day_offset, h + 1)
         IN  IF scan = "TypeError" THEN [raised |-> TRUE, slots |-> <<>>]
             ELSE IF rest.raised THEN rest
             ELSE IF scan = "conflict" THEN rest
             ELSE [raised |-> FALSE,
                   slots |-> <<[start_time |-> slot_start,
                                end_time |-> slot_end,
                                duration_minutes |-> study_duration,
                                confidence_score |-> CalculateConfidenceScore(slot_start, preferences),
                                subject |-> SuggestSubject(slot_start, preferences)]>>
                             \o rest.slots]

\* list.sort(key=confidence_score, reverse=True) is stable: a slot goes after
\* every slot already placed whose score is at least its own.
RECURSIVE InsertByScore(_, _, _)
InsertByScore(sorted, slot, i) ==
    IF i > Len(sorted) THEN Append(sorted, slot)
    ELSE IF sorted[i].confidence_score < slot.confidence_score
         THEN SubSeq(sorted, 1, i - 1) \o <<slot>> \o SubSeq(sorted, i, Len(sorted))
         ELSE InsertByScore(sorted, slot, i + 1)

RECURSIVE SortFrom(_, _, _)
SortFrom(slots, i, sorted) ==
    IF i > Len(slots) THEN sorted
    ELSE SortFrom(slots, i + 1, InsertByScore(sorted, slots[i], 1))

Unsorted(slots) == slots

SortByScoreDescending(slots) == SortFrom(slots, 1, <<>>)

Untruncated(slots) == slots

\* available_slots[:10]
TopRecommendations(slots) == SubSeq(slots, 1, Min(TopN, Len(slots)))

\* find_optimal_study_times, given what get_all_events returned.
FindOptimalStudyTimes(start_time, preferences, study_duration, days_ahead, existing_events) ==
    LET busy_times == BusyTimes(existing_events, 1)
        available == AvailableSlots(start_time, preferences, study_duration, days_ahead,
                                    busy_times, 0, 1)
    IN  IF available.raised THEN [raised |-> TRUE, slots |-> <<>>]
        ELSE [raised |-> FALSE,
              slots |-> TopRecommendations(SortByScoreDescending(available.slots))]

-----------------------------------------------------------------------------
(* Inputs of the calendar and scheduler operations. *)

SeqsUpTo(S, n) == UNION {[1..k -> S] : k \in 0..n}

RECURSIVE Flatten(_)
Flatten(ss) == IF ss = <<>> THEN <<>> ELSE Head(ss) \o Flatten(Tail(ss))

At(day, minute) == day * MinutesPerDay + minute

Line(tag, val) == [tag |-> tag, val |-> val]

\* VEVENT blocks of a feed, around the day after `day`: a timed event at
\* 09:30-10:30, one without DTEND, one stamped with 'Z', one before the window.
TimedBlock(day) ==
    <<Line("BEGIN:VEVENT", Text(0)), Line("SUMMARY:", Text(0)),
      Line("DTSTART:", NaiveText(At(day + 1, 570))), Line("DTEND:", NaiveText(At(day + 1, 630))),
      Line("END:VEVENT", Text(0))>>
NoEndBlock(day) ==
    <<Line("BEGIN:VEVENT", Text(0)), Line("SUMMARY:", Text(0)),
      Line("DTSTART:", NaiveText(At(day + 1, 570))), Line("END:VEVENT", Text(0))>>
ZuluBlock(day) ==
    <<Line("BEGIN:VEVENT", Text(0)), Line("SUMMARY:", Text(0)),
      Line("DTSTART:", AwareText(At(day + 1, 570))), Line("DTEND:", AwareText(At(day + 1, 630))),
      Line("END:VEVENT", Text(0))>>
PastBlock(day) ==
    <<Line("BEGIN:VEVENT", Text(0)), Line("SUMMARY:", Text(0)),
      Line("DTSTART:", NaiveText(At(day - 1, 570))), Line("DTEND:", NaiveText(At(day - 1, 630))),
      Line("END:VEVENT", Text(0))>>

FeedText(blocks) ==
    <<Line("BEGIN:VCALENDAR", Text(0))>> \o Flatten(blocks) \o <<Line("END:VCALENDAR", Text(0))>>

FetchFailed == [ok |-> FALSE, lines |-> <<>>]

\* What requests.get answers for one URL: a failure, or a feed of the blocks.
FeedResponses(blockSeqs) ==
    {FetchFailed} \cup {[ok |-> TRUE, lines |-> FeedText(bs)] : bs \in blockSeqs}

\* Items of the remote calendar around the day after `day`: a timed event
\* (RFC 3339 dateTime with offset), an all-day event (date), an item with no 'start'.
TimedItem(day) ==
    [summary |-> Text(0),
     start |-> [dateTime |-> AwareText(At(day + 1, 570))],
     end |-> [dateTime |-> AwareText(At(day + 1, 630))]]
AllDayItem(day) ==
    [summary |-> Text(0), start |-> [date |-> DateText(day + 1)], end |-> [date |-> DateText(day + 2)]]
NoStartItem(day) ==
    [summary |-> Text(0), end |-> [date |-> DateText(day + 2)]]

RequestFailed == [ok |-> FALSE, items |-> <<>>]

\* What events().list().execute() answers; with no handle no request is made.
GoogleResponses(service, itemSeqs) ==
    IF ~service THEN {RequestFailed}
    ELSE {RequestFailed} \cup {[ok |-> TRUE, items |-> is] : is \in itemSeqs}

NowChoices == {At(d, m) : d \in 0..6, m \in {30, 960}}

HourDicts ==
    {EmptyDict} \cup {[preferred_study_hours |-> hs] : hs \in SeqsUpTo({9, 19}, MaxHours) \ {<<>>}}
DayWeightDicts ==
    {EmptyDict,
     [preferred_days |-> 0..6, morning_preference |-> 5],
     [preferred_days |-> {2}, morning_preference |-> 10, midday_preference |-> 0,
      afternoon_preference |-> 5, evening_preference |-> 10]}
UrlDicts == {EmptyDict, [ical_urls |-> <<"feed1">>]}

PreferenceChoices ==
    {Merge(Merge(h, d), u) : h \in HourDicts, d \in DayWeightDicts, u \in UrlDicts}

\* (study_duration, days_ahead): the defaults, and a short session over two days.
ArgChoices == {<<DefaultStudyDuration, DefaultDaysAhead>>, <<60, 2>>}

\* No planner call, and no account or study-session request, made yet.
NoPlan ==
    [work_description |-> <<>>, preferences |-> EmptyDict, now |-> 0,
     g_resp |-> [ok |-> FALSE, items |-> <<>>], fetched |-> FALSE]
NoRequest == [op |-> "none", status |-> 0]
NoClass == [study_type |-> "", duration |-> 0, subject |-> ""]

\* The (user_id, group_id) pairs of the streak requests, group_id None included,
\* and a connection with no update_streak call on it.
StreakPairs == {<<user_id, group_id>> : user_id \in {1, 2}, group_id \in {NoGroup, 1}}
NoStreakCall ==
    [pc |-> "idle", user_id |-> 0, group_id |-> NoGroup, streak |-> NoneVal, now |-> 0,
     ok |-> FALSE]

NoCall ==
    [start_time |-> 0, end_time |-> 0, preferences |-> EmptyDict, study_duration |-> 0,
     days_ahead |-> 0, g_resp |-> RequestFailed, f_resps |-> <<>>]

-----------------------------------------------------------------------------
(* Operations of the calendar and the scheduler. *)

\* authenticate_google: a success sets the handle, a failure (the except
\* branch) leaves it as it was.
AuthenticateGoogle ==
    /\ sched_op = "none"
    /\ \E success \in BOOLEAN :
          google_service' = IF success THEN TRUE ELSE google_service
    /\ sched_op' = "authenticate"
    /\ call' = NoCall
    /\ all_events' = <<>>
    /\ recommendations' = <<>>
    /\ sched_raised' = FALSE
    /\ UNCHANGED habit_vars
    /\ UNCHANGED <<plan_vars, user_vars, session_vars, streak_vars, group_vars>>

\* GET /api/calendar/events: get_all_events over the user's ical_urls.
GetCalendarEvents ==
    /\ sched_op = "none"
    /\ \E start \in {At(0, 0), At(3, 960)}, n \in 0..MaxFeeds :
      LET day == start \div MinutesPerDay
          end == start + DefaultDaysAhead * MinutesPerDay
          blocks == {TimedBlock(day), NoEndBlock(day), ZuluBlock(day), PastBlock(day)}
          items == {TimedItem(day), AllDayItem(day), NoStartItem(day)}
      IN
      \E g_resp \in GoogleResponses(google_service, SeqsUpTo(items, 1)),
         f_resps \in [1..n -> FeedResponses({<<>>} \cup {<<b>> : b \in blocks}
                                             \cup {<<TimedBlock(day), b>> : b \in blocks})] :
        /\ sched_op' = "events"
        /\ call' = [NoCall EXCEPT !.start_time = start, !.end_time = end,
                                  !.g_resp = g_resp, !.f_resps = f_resps]
        /\ all_events' = GetAllEvents(google_service, g_resp, f_resps, start, end)
        /\ recommendations' = <<>>
        /\ sched_raised' = FALSE
        /\ UNCHANGED <<google_service>>
        /\ UNCHANGED habit_vars
        /\ UNCHANGED <<plan_vars, user_vars, session_vars, streak_vars, group_vars>>

\* find_optimal_study_times(user_preferences, study_duration, days_ahead) at
\* the moment `now`, with the answers of the calendar sources it queries.
RecommendStudyTimes ==
    /\ sched_op = "none"
    /\ \E now \in NowChoices, preferences \in PreferenceChoices,
       args \in ArgChoices :
      LET study_duration == args[1]
          days_ahead == args[2]
          day == now \div MinutesPerDay
          end == now + days_ahead * MinutesPerDay
          ical_urls == Get(preferences, "ical_urls", <<>>)
      IN
      \E g_resp \in GoogleResponses(google_service,
                                    {<<>>, <<TimedItem(day)>>, <<AllDayItem(day)>>}),
         f_resps \in [1..Len(ical_urls) ->
                        FeedResponses({<<>>, <<TimedBlock(day)>>, <<NoEndBlock(day)>>})] :
        LET existing_events == GetAllEvents(google_service, g_resp, f_resps, now, end)
            found == FindOptimalStudyTimes(now, preferences, study_duration, days_ahead,
                                           existing_events)
        IN
        /\ sched_op' = "recommend"
        /\ call' = [start_time |-> now, end_time |-> end, preferences |-> preferences,
                    study_duration |-> study_duration, days_ahead |-> days_ahead,
                    g_resp |-> g_resp, f_resps |-> f_resps]
        /\ all_events' = existing_events
        /\ recommendations' = found.slots
        /\ sched_raised' = found.raised
        /\ UNCHANGED <<google_service>>
        /\ UNCHANGED habit_vars
        /\ UNCHANGED <<plan_vars, user_vars, session_vars, streak_vars, group_vars>>

InitScheduler ==
    /\ google_service = FALSE
    /\ sched_op = "none"
    /\ call = NoCall
    /\ all_events = <<>>
    /\ recommendations = <<>>
    /\ sched_raised = FALSE
    /\ sessions = <<>>
    /\ habit_pc = "idle"
    /\ h_idx = 0
    /\ current_streak = 0
    /\ last_date = NoDate
    /\ progress = EmptyDict
    /\ rewards = <<>>
    /\ http_status = 0
    /\ plan_call = NoPlan
    /\ suggestions = <<>>
    /\ plan_raised = FALSE
    /\ classified = NoClass
    /\ users = <<>>
    /\ login_session = EmptyDict
    /\ user_resp = NoRequest
    /\ study_sessions = <<>>
    /\ next_session_id = 1
    /\ calendar_events = <<>>
    /\ session_resp = NoRequest
    /\ streaks = <<>>
    /\ clock = 0
    /\ streak_reqs = [r \in 1..MaxRequests |-> NoStreakCall]
    /\ streak_lock = 0
    /\ streak_calls = [p \in StreakPairs |-> 0]
    /\ streak_resp = NoRequest
    /\ groups = <<>>
    /\ group_members = <<>>
    /\ group_resp = NoRequest

\* The response is sent; what the request computed is dropped, the handle stays.
Respond ==
    /\ sched_op # "none"
    /\ sched_op' = "none"
    /\ call' = NoCall
    /\ all_events' = <<>>
    /\ recommendations' = <<>>
    /\ sched_raised' = FALSE
    /\ UNCHANGED <<google_service>>
    /\ UNCHANGED habit_vars
    /\ UNCHANGED <<plan_vars, user_vars, session_vars, streak_vars, group_vars>>

\* json.dumps / json.loads of a preferences object.
JsonDumps(value) == [kind |-> "json", t |-> 0, value |-> value]
JsonLoads(text) == text.value

\* What SELECT preferences FROM users WHERE id = ? fetches: no row, a row
\* whose column is NULL, or the JSON text create_user stored.
NoRow == [found |-> FALSE, preferences |-> NoneVal]
StoredPreferences ==
    {EmptyDict,
     [preferred_study_hours |-> <<19>>, morning_preference |-> 5],
     [preferred_days |-> {2}, evening_preference |-> 0, ical_urls |-> <<"feed1">>]}
UserRows ==
    {NoRow, [found |-> TRUE, preferences |-> NoneVal]}
      \cup {[found |-> TRUE, preferences |-> JsonDumps(d)] : d \in StoredPreferences}

\* Bodies of POST /api/schedule/recommend.
RecommendRequests ==
    {[user_id |-> 1]}
      \cup {[user_id |-> 1, preferences |-> d] :
               d \in {EmptyDict,
                      [preferred_study_hours |-> <<9>>],
                      [preferred_study_hours |-> <<9, 14>>, preferred_days |-> 0..6,
                       evening_preference |-> 10],
                      [preferred_study_hours |-> <<5, 6, 9, 10, 14, 15, 18, 19>>]}}

\* recommend_schedule: the request's preferences over the stored ones, then
\* find_optimal_study_times(preferences) with its default duration and horizon.
RecommendSchedule ==
    /\ sched_op = "none"
    /\ \E data \in RecommendRequests, user_data \in UserRows, now \in {At(0, 30), At(3, 960)} :
      LET requested == Get(data, "preferences", EmptyDict)
          preferences == IF user_data.found /\ user_data.preferences # NoneVal
                         THEN Merge(JsonLoads(user_data.preferences), requested)
                         ELSE requested
          day == now \div MinutesPerDay
          end == now + DefaultDaysAhead * MinutesPerDay
          ical_urls == Get(preferences, "ical_urls", <<>>)
      IN
      \E g_resp \in GoogleResponses(google_service, {<<>>, <<AllDayItem(day)>>}),
         f_resps \in [1..Len(ical_urls) -> FeedResponses({<<>>, <<TimedBlock(day)>>})] :
        LET existing_events == GetAllEvents(google_service, g_resp, f_resps, now, end)
            found == FindOptimalStudyTimes(now, preferences, DefaultStudyDuration,
                                           DefaultDaysAhead, existing_events)
        IN
        /\ sched_op' = "recommend_schedule"
        /\ call' = [start_time |-> now, end_time |-> end, preferences |-> preferences,
                    study_duration |-> DefaultStudyDuration, days_ahead |-> DefaultDaysAhead,
                    g_resp |-> g_resp, f_resps |-> f_resps,
                    data |-> data, user_data |-> user_data]
        /\ all_events' = existing_events
        /\ recommendations' = found.slots
        /\ sched_raised' = found.raised
        /\ UNCHANGED <<google_service>>
        /\ UNCHANGED habit_vars
        /\ UNCHANGED <<plan_vars, user_vars, session_vars, streak_vars, group_vars>>

SchedulerNext ==
    \/ AuthenticateGoogle
    \/ GetCalendarEvents
    \/ RecommendStudyTimes
    \/ RecommendSchedule
    \/ Respond

SpecScheduler == InitScheduler /\ [][SchedulerNext]_vars

-----------------------------------------------------------------------------
(* Properties of find_optimal_study_times and get_all_events. *)

Returned == sched_op = "recommend" /\ ~sched_raised

PreferredHours == Get(call.preferences, "preferred_study_hours", DefaultHours)
PreferredDays == Get(call.preferences, "preferred_days", DefaultDays)

\* The slots that survived the conflict filter, in generation order.
Survivors ==
    AvailableSlots(call.start_time, call.preferences, call.study_duration, call.days_ahead,
                   BusyTimes(all_events, 1), 0, 1).slots

\* A delivered event both of whose ends parse to naive timestamps.
NaiveInterval(event) ==
    LET b_start == ParseField(event, "start")
        b_end == ParseField(event, "end")
    IN  b_start.ok /\ b_end.ok /\ ~b_start.aware /\ ~b_end.aware

\* C1: no returned slot overlaps, under half-open semantics, a busy event the
\* calendar sources delivered for the call (an event whose start and end are
\* timestamps: NOT (slot.start < event.end AND slot.end > event.start), the
\* comparisons being those of the slot's naive clock), and a returned slot is
\* whole: it still has the requested length.
C1_NoConflict ==
    Returned =>
      \A i \in 1..Len(recommendations) :
        LET slot == recommendations[i] IN
        /\ slot.end_time - slot.start_time = call.study_duration
        /\ slot.duration_minutes = call.study_duration
        /\ \A j \in 1..Len(all_events) :
             LET b_start == ParseField(all_events[j], "start")
                 b_end == ParseField(all_events[j], "end")
             IN  (b_start.ok /\ b_end.ok) =>
                   /\ ~b_end.aware
                   /\ slot.start_time < b_end.t =>
                        (~b_start.aware /\ ~(slot.end_time > b_start.t))

\* A call that returned slots although a delivered event overlapped a
\* candidate of a preferred day, which was dropped.
C1_Witness ==
    /\ Returned
    /\ Len(recommendations) > 0
    /\ \E j \in 1..Len(all_events), d \in 0..(call.days_ahead - 1), h \in 1..Len(PreferredHours) :
         LET slot_start == SlotStart(call.start_time, d, PreferredHours[h]) IN
         /\ NaiveInterval(all_events[j])
         /\ Weekday(slot_start) \in PreferredDays
         /\ slot_start < ParseField(all_events[j], "end").t
         /\ slot_start + call.study_duration > ParseField(all_events[j], "start").t
         /\ \A i \in 1..Len(recommendations) : recommendations[i].start_time # slot_start

\* C2: every returned slot lies in [now, now + days_ahead days): it starts no
\* earlier than the call and ends no later than the end of the horizon.
C2_WithinHorizon ==
    Returned =>
      \A i \in 1..Len(recommendations) :
        /\ call.start_time <= recommendations[i].start_time
        /\ recommendations[i].end_time <= call.end_time

\* C3: find_optimal_study_times returns at most 10 slots.
C3_AtMostTen ==
    sched_op = "recommend" => Len(recommendations) <= TopN

\* More than 10 candidates survived and exactly 10 were returned.
C3_Witness ==
    /\ Returned
    /\ Len(Survivors) > TopN
    /\ Len(recommendations) = TopN

\* C4: whatever the calendar sources deliver, find_optimal_study_times
\* returns a list; no error caused by event data reaches the caller.
C4_NoCalendarError ==
    sched_op = "recommend" => ~sched_raised

\* What source k of the last call contributed: k = 0 is the remote calendar,
\* k >= 1 the k-th feed URL; a source that failed contributes nothing.
SourceEvents(k) ==
    IF k = 0
    THEN IF google_service /\ call.g_resp.ok THEN GetGoogleEvents(TRUE, call.g_resp) ELSE <<>>
    ELSE IF call.f_resps[k].ok
         THEN ParseIcalUrl(call.f_resps[k], call.start_time, call.end_time)
         ELSE <<>>

RECURSIVE SourceOffset(_)
SourceOffset(k) == IF k = 0 THEN 0 ELSE SourceOffset(k - 1) + Len(SourceEvents(k - 1))

\* C5: get_all_events returns the remote-calendar events followed by each
\* feed's events in URL order; a failed source contributes zero events and
\* leaves the others as they are; nothing is removed, so the length is the
\* sum of the per-source lengths.
C5_Concatenation ==
    sched_op = "events" =>
      LET n == Len(call.f_resps) IN
      /\ Len(all_events) = SourceOffset(n + 1)
      /\ \A k \in 0..n : \A i \in 1..Len(SourceEvents(k)) :
           all_events[SourceOffset(k) + i] = SourceEvents(k)[i]

\* The remote calendar and a later feed both contribute, a feed between them
\* failed, and the same event is in the result twice.
C5_Witness ==
    /\ sched_op = "events"
    /\ Len(call.f_resps) >= 2
    /\ Len(SourceEvents(0)) > 0
    /\ ~call.f_resps[1].ok
    /\ Len(SourceEvents(2)) > 1
    /\ \E i, j \in 1..Len(all_events) : i < j /\ all_events[i] = all_events[j]

SlotDay(slot) == slot.start_time \div MinutesPerDay
SlotHour(slot) == (slot.start_time % MinutesPerDay) \div 60

\* The slots of a list that have a given score, in the order of the list.
ByScore(slots, score) ==
    LET HasScore(slot) == slot.confidence_score = score IN SelectSeq(slots, HasScore)

\* C6: the returned list is in non-increasing score order; slots of equal
\* score keep their generation order (earlier day first, then position in
\* preferred_hours): they are the first of the surviving candidates of that
\* score, in the order of generation; and no candidate that was cut by the
\* truncation to 10 scores higher than a returned slot.
C6_Ranking ==
    Returned =>
      LET surv == Survivors
          recs == recommendations
      IN
      /\ Len(recs) = Min(TopN, Len(surv))
      /\ \A i, j \in 1..Len(recs) :
           i < j =>
             /\ recs[i].confidence_score >= recs[j].confidence_score
             /\ recs[i].confidence_score = recs[j].confidence_score =>
                  \/ SlotDay(recs[i]) < SlotDay(recs[j])
                  \/ /\ SlotDay(recs[i]) = SlotDay(recs[j])
                     /\ \E p, q \in 1..Len(PreferredHours) :
                          /\ p <= q
                          /\ PreferredHours[p] = SlotHour(recs[i])
                          /\ PreferredHours[q] = SlotHour(recs[j])
      /\ \A i \in 1..Len(recs) :
           LET kept == ByScore(recs, recs[i].confidence_score)
               generated == ByScore(surv, recs[i].confidence_score)
           IN  Len(kept) <= Len(generated) /\ kept = SubSeq(generated, 1, Len(kept))
      /\ \A k \in 1..Len(surv) :
           Len(ByScore(recs, surv[k].confidence_score)) < Len(ByScore(surv, surv[k].confidence_score)) =>
             \A i \in 1..Len(recs) : recs[i].confidence_score >= surv[k].confidence_score

\* The sort moved a slot, two returned slots of one day tie, and a candidate
\* was cut.
C6_Witness ==
    /\ Returned
    /\ LET surv == Survivors IN
       /\ Len(surv) > TopN
       /\ \E k \in 1..(Len(surv) - 1) :
            surv[k].confidence_score < surv[k + 1].confidence_score
    /\ \E i, j \in 1..Len(recommendations) :
         /\ i < j
         /\ recommendations[i].confidence_score = recommendations[j].confidence_score
         /\ SlotDay(recommendations[i]) = SlotDay(recommendations[j])
         /\ SlotHour(recommendations[i]) # SlotHour(recommendations[j])

\* C7: every returned confidence_score lies in [0, 1] (0..10 tenths).
C7_ScoreBound ==
    Returned =>
      \A i \in 1..Len(recommendations) :
        /\ 0 <= recommendations[i].confidence_score
        /\ recommendations[i].confidence_score <= ScoreCap

\* A returned slot whose weight plus the day bonus exceeds 1.0 and was capped.
C7_Witness ==
    /\ Returned
    /\ \E i \in 1..Len(recommendations) :
         /\ TimeOfDayWeight(SlotHour(recommendations[i]), call.preferences) + DayBonus > ScoreCap
         /\ recommendations[i].confidence_score = ScoreCap

\* C8: with no calendar events, a 7-day horizon, at least one preferred hour
\* and at least one preferred weekday, at least one slot is returned,
\* whatever the weekday and time of the call.
C8_NonEmptyWhenFree ==
    (/\ sched_op = "recommend"
     /\ all_events = <<>>
     /\ call.days_ahead = DefaultDaysAhead
     /\ PreferredHours # <<>>
     /\ PreferredDays # {})
    => (~sched_raised /\ Len(recommendations) >= 1)

\* A call on a Thursday afternoon for Wednesdays only: the one Wednesday of
\* the horizon is its last day.
C8_Witness ==
    /\ Returned
    /\ all_events = <<>>
    /\ call.days_ahead = DefaultDaysAhead
    /\ PreferredDays = {2}
    /\ Weekday(call.start_time) = 3
    /\ Len(recommendations) >= 1
    /\ \A i \in 1..Len(recommendations) : SlotDay(recommendations[i]) = SlotDay([start_time |-> call.start_time]) + 6

\* The stored and the requested preferences of a recommend_schedule call.
StoredOfCall ==
    IF call.user_data.found /\ call.user_data.preferences # NoneVal
    THEN call.user_data.preferences.value ELSE EmptyDict
RequestedOfCall ==
    IF "preferences" \in DOMAIN call.data THEN call.data.preferences ELSE EmptyDict

\* C17: the preferences recommend_schedule hands to find_optimal_study_times
\* are the shallow merge of the user's stored preferences and the request's:
\* on a key of both the request's value wins, a key of only one keeps its
\* value, and there is no other key.
C17_PreferenceMerge ==
    sched_op = "recommend_schedule" =>
      LET handed == call.preferences IN
      /\ DOMAIN handed = DOMAIN StoredOfCall \cup DOMAIN RequestedOfCall
      /\ \A k \in DOMAIN RequestedOfCall : handed[k] = RequestedOfCall[k]
      /\ \A k \in DOMAIN StoredOfCall \ DOMAIN RequestedOfCall : handed[k] = StoredOfCall[k]
      /\ ~sched_raised =>
           \A i \in 1..Len(recommendations) :
             \E h \in 1..Len(Get(handed, "preferred_study_hours", DefaultHours)) :
               Get(handed, "preferred_study_hours", DefaultHours)[h] = SlotHour(recommendations[i])

\* Stored hours [19] and a stored morning weight, requested hours [9]: the
\* slots are at 9 and scored with the stored weight.
C17_Witness ==
    /\ sched_op = "recommend_schedule"
    /\ ~sched_raised
    /\ "preferred_study_hours" \in DOMAIN StoredOfCall \cap DOMAIN RequestedOfCall
    /\ StoredOfCall.preferred_study_hours # RequestedOfCall.preferred_study_hours
    /\ "morning_preference" \in DOMAIN StoredOfCall \ DOMAIN RequestedOfCall
    /\ Len(recommendations) > 0
    /\ \A i \in 1..Len(recommendations) :
         /\ SlotHour(recommendations[i]) = 9
         /\ recommendations[i].confidence_score = StoredOfCall.morning_preference + DayBonus

\* A call of find_optimal_study_times, direct or through recommend_schedule,
\* that returned its list.
ReturnedSlots == sched_op \in {"recommend", "recommend_schedule"} /\ ~sched_raised

\* The hour buckets as the specification words them.
HourBuckets ==
    [morning_preference |-> 6..9, midday_preference |-> 10..14,
     afternoon_preference |-> 15..18,
     evening_preference |-> (0..23) \ (6..18)]
BucketDefaults ==
    [morning_preference |-> DefaultMorning, midday_preference |-> DefaultMidday,
     afternoon_preference |-> DefaultAfternoon, evening_preference |-> DefaultEvening]

\* C21: every returned slot has confidence_score = min(w + 0.2, 1.0), w the
\* weight of the one hour bucket that holds the slot's hour (06-09 morning,
\* 10-14 midday, 15-18 afternoon, any other hour evening); the preferred-day
\* bonus is in the score of every returned slot, whether preferred_days was
\* supplied or defaulted.
C21_ScoreFormula ==
    ReturnedSlots =>
      \A i \in 1..Len(recommendations) :
        LET hour == SlotHour(recommendations[i])
            holding == {b \in DOMAIN HourBuckets : hour \in HourBuckets[b]}
        IN  /\ Cardinality(holding) = 1
            /\ \A b \in holding :
                 LET w == IF b \in DOMAIN call.preferences
                          THEN call.preferences[b] ELSE BucketDefaults[b]
                 IN  recommendations[i].confidence_score
                       = (IF w + DayBonus < ScoreCap THEN w + DayBonus ELSE ScoreCap)

\* One returned list with slots at both ends of every bucket, preferred_days
\* supplied, one score capped and one not.
C21_Witness ==
    /\ ReturnedSlots
    /\ "preferred_days" \in DOMAIN call.preferences
    /\ \A hour \in {5, 6, 9, 10, 14, 15, 18, 19} :
         \E i \in 1..Len(recommendations) : SlotHour(recommendations[i]) = hour
    /\ \E i, j \in 1..Len(recommendations) :
         /\ recommendations[i].confidence_score = ScoreCap
         /\ recommendations[j].confidence_score < ScoreCap

\* C22: every returned slot lies on one of the days today + 0 .. today +
\* (days_ahead - 1) whose weekday is a preferred weekday, starts at an hour of
\* preferred_hours with minute zero, and has end - start = duration_minutes =
\* the requested duration.
C22_SlotGeneration ==
    ReturnedSlots =>
      \A i \in 1..Len(recommendations) :
        LET slot == recommendations[i]
            today == call.start_time \div MinutesPerDay
        IN  /\ SlotDay(slot) \in today..(today + call.days_ahead - 1)
            /\ SlotDay(slot) % 7 \in PreferredDays
            /\ \E h \in 1..Len(PreferredHours) :
                 slot.start_time = SlotDay(slot) * MinutesPerDay + PreferredHours[h] * 60
            /\ slot.end_time - slot.start_time = slot.duration_minutes
            /\ slot.duration_minutes = call.study_duration

\* A call made at half past, on a day that is not preferred, returned slots
\* of more than one day and more than one hour, the first of them today + 1
\* or later and one on the last day of the horizon.
C22_Witness ==
    /\ ReturnedSlots
    /\ call.start_time % 60 = 30
    /\ Weekday(call.start_time) \notin PreferredDays
    /\ \E i, j \in 1..Len(recommendations) :
         /\ SlotDay(recommendations[i]) # SlotDay(recommendations[j])
         /\ SlotHour(recommendations[i]) # SlotHour(recommendations[j])
         /\ SlotDay(recommendations[j])
              = (call.start_time \div MinutesPerDay) + call.days_ahead - 1

\* C25: parse_ical_url keeps a feed event if and only if it has a start field
\* that parses to a timestamp t with window_start <= t <= window_end, both
\* ends included; the kept events are in feed order and tagged with the feed
\* source.
C25_FeedFiltering ==
    sched_op = "events" =>
      \A k \in 1..Len(call.f_resps) :
        call.f_resps[k].ok =>
          LET StartsInWindow(event) ==
                  /\ "start" \in DOMAIN event
                  /\ FromIsoformat(event.start).ok
                  /\ call.start_time <= FromIsoformat(event.start).t
                  /\ FromIsoformat(event.start).t <= call.end_time
              wanted == SelectSeq(ScanLines(call.f_resps[k].lines, 1, <<>>, EmptyDict),
                                  StartsInWindow)
          IN  /\ Len(SourceEvents(k)) = Len(wanted)
              /\ \A i \in 1..Len(wanted) :
                   /\ SourceEvents(k)[i].source = "ical"
                   /\ SourceEvents(k)[i].start = wanted[i].start

-----------------------------------------------------------------------------
(* HabitTracker *)

\* The dict returned for a user with no session: it has no 'milestone_reached'.
EmptyLogProgress ==
    [days_completed |-> 0,
     days_remaining |-> habit_formation_days,
     progress_percentage |-> <<0, 1>>,
     current_streak |-> 0,
     is_on_track |-> FALSE]

HabitProgressUncapped(streak) ==
    LET days_completed == streak
        days_remaining == Max(0, habit_formation_days - days_completed)
    IN  [days_completed |-> days_completed,
         days_remaining |-> days_remaining,
         progress_percentage |-> <<days_completed * 100, habit_formation_days>>,
         current_streak |-> streak,
         is_on_track |-> streak >= OnTrackStreak,
         milestone_reached |-> days_completed >= habit_formation_days]

\* The dict returned after the walk; progress_percentage is the quotient
\* (days_completed / 70) * 100 as <<numerator, denominator>>.
HabitProgress(streak) ==
    LET days_completed == Min(streak, habit_formation_days)
        days_remaining == Max(0, habit_formation_days - days_completed)
    IN  [days_completed |-> days_completed,
         days_remaining |-> days_remaining,
         progress_percentage |-> <<days_completed * 100, habit_formation_days>>,
         current_streak |-> streak,
         is_on_track |-> streak >= OnTrackStreak,
         milestone_reached |-> days_completed >= habit_formation_days]

\* datetime.fromisoformat(created_at).date()
SessionDate(session) == session.created_at \div MinutesPerDay

StreakStepResetOnSameDate(streak, last, session_date) ==
    IF last = NoDate \/ session_date = last + 1 THEN streak + 1 ELSE 1

\* The streak after a completed session dated session_date.
StreakStep(streak, last, session_date) ==
    IF last = NoDate \/ session_date = last + 1 THEN streak + 1
    ELSE IF session_date # last THEN 1
    ELSE streak

SelectRewards(flags) ==
    LET messages == <<"7-day streak", "21-day streak", "30-day streak", "50 days", "lasting habit">>
        RECURSIVE Pick(_)
        Pick(i) == IF i > Len(messages) THEN <<>>
                   ELSE (IF flags[i] THEN <<messages[i]>> ELSE <<>>) \o Pick(i + 1)
    IN  Pick(1)

GetMilestoneRewardsStrict(p) ==
    IF ~({"current_streak", "days_completed", "milestone_reached"} \subseteq DOMAIN p)
    THEN [raised |-> TRUE, rewards |-> <<>>]
    ELSE [raised |-> FALSE,
          rewards |-> SelectRewards(<<p.current_streak > Streak7, p.current_streak > Streak21,
                                      p.current_streak > Streak30, p.days_completed > Days50,
                                      p.milestone_reached>>)]

\* get_milestone_rewards: progress['milestone_reached'] on a dict without
\* that key raises KeyError.
GetMilestoneRewards(p) ==
    IF ~({"current_streak", "days_completed", "milestone_reached"} \subseteq DOMAIN p)
    THEN [raised |-> TRUE, rewards |-> <<>>]
    ELSE [raised |-> FALSE,
          rewards |-> SelectRewards(<<p.current_streak >= Streak7, p.current_streak >= Streak21,
                                      p.current_streak >= Streak30, p.days_completed >= Days50,
                                      p.milestone_reached>>)]

\* Session logs of one user in created_at order: the first row at midnight or
\* noon of day 1, each later row half a day, one day or two days after the
\* row before it.
RECURSIVE CreatedAt(_, _, _)
CreatedAt(first, gaps, i) == IF i = 1 THEN first ELSE CreatedAt(first, gaps, i - 1) + gaps[i - 1]

SessionLog(n, first, gaps, done) ==
    [i \in 1..n |-> [created_at |-> CreatedAt(first, gaps, i), completed |-> done[i]]]

\* track_habit_progress up to the walk: the rows are fetched; with none the
\* short dict is returned at once.
TrackHabitProgress ==
    /\ habit_pc = "idle"
    /\ IF sessions = <<>>
       THEN /\ progress' = EmptyLogProgress
            /\ habit_pc' = "tracked"
            /\ UNCHANGED <<h_idx, current_streak, last_date>>
       ELSE /\ current_streak' = 0
            /\ last_date' = NoDate
            /\ h_idx' = 1
            /\ habit_pc' = "walk"
            /\ UNCHANGED progress
    /\ UNCHANGED <<sessions, rewards, http_status>>
    /\ UNCHANGED sched_vars
    /\ UNCHANGED <<plan_vars, user_vars, session_vars, streak_vars, group_vars>>

WalkSessionMovingPointer ==
    /\ habit_pc = "walk"
    /\ h_idx <= Len(sessions)
    /\ LET session == sessions[h_idx] IN
       IF session.completed
       THEN /\ current_streak' = StreakStep(current_streak, last_date, SessionDate(session))
            /\ last_date' = SessionDate(session)
       ELSE /\ current_streak' = current_streak
            /\ last_date' = SessionDate(session)
    /\ h_idx' = h_idx + 1
    /\ UNCHANGED <<sessions, habit_pc, progress, rewards, http_status>>
    /\ UNCHANGED sched_vars
    /\ UNCHANGED <<plan_vars, user_vars, session_vars, streak_vars, group_vars>>

\* One iteration of `for session in sessions`.
WalkSession ==
    /\ habit_pc = "walk"
    /\ h_idx <= Len(sessions)
    /\ LET session == sessions[h_idx] IN
       IF session.completed
       THEN /\ current_streak' = StreakStep(current_streak, last_date, SessionDate(session))
            /\ last_date' = SessionDate(session)
       ELSE UNCHANGED <<current_streak, last_date>>
    /\ h_idx' = h_idx + 1
    /\ UNCHANGED <<sessions, habit_pc, progress, rewards, http_status>>
    /\ UNCHANGED sched_vars
    /\ UNCHANGED <<plan_vars, user_vars, session_vars, streak_vars, group_vars>>

\* The return after the loop.
ReturnProgress ==
    /\ habit_pc = "walk"
    /\ h_idx > Len(sessions)
    /\ progress' = HabitProgress(current_streak)
    /\ habit_pc' = "tracked"
    /\ UNCHANGED <<sessions, h_idx, current_streak, last_date, rewards, http_status>>
    /\ UNCHANGED sched_vars
    /\ UNCHANGED <<plan_vars, user_vars, session_vars, streak_vars, group_vars>>

\* get_habit_progress after track_habit_progress returned: the rewards and
\* the response; an exception of get_milestone_rewards is a 500.
RespondHabitProgress ==
    /\ habit_pc = "tracked"
    /\ LET r == GetMilestoneRewards(progress) IN
       /\ rewards' = r.rewards
       /\ http_status' = IF r.raised THEN 500 ELSE 200
    /\ habit_pc' = "done"
    /\ UNCHANGED <<sessions, h_idx, current_streak, last_date, progress>>
    /\ UNCHANGED sched_vars
    /\ UNCHANGED <<plan_vars, user_vars, session_vars, streak_vars, group_vars>>

InitHabit ==
    /\ google_service = FALSE
    /\ sched_op = "none"
    /\ call = NoCall
    /\ all_events = <<>>
    /\ recommendations = <<>>
    /\ sched_raised = FALSE
    /\ \E n \in 0..MaxSessions :
         \E first \in {At(1, 0), At(1, 720)},
            gaps \in [1..(n - 1) -> {720, MinutesPerDay, 2 * MinutesPerDay}],
            done \in [1..n -> BOOLEAN] :
           sessions = SessionLog(n, first, gaps, done)
    /\ habit_pc = "idle"
    /\ h_idx = 0
    /\ current_streak = 0
    /\ last_date = NoDate
    /\ progress = EmptyDict
    /\ rewards = <<>>
    /\ http_status = 0
    /\ plan_call = NoPlan
    /\ suggestions = <<>>
    /\ plan_raised = FALSE
    /\ classified = NoClass
    /\ users = <<>>
    /\ login_session = EmptyDict
    /\ user_resp = NoRequest
    /\ study_sessions = <<>>
    /\ next_session_id = 1
    /\ calendar_events = <<>>
    /\ session_resp = NoRequest
    /\ streaks = <<>>
    /\ clock = 0
    /\ streak_reqs = [r \in 1..MaxRequests |-> NoStreakCall]
    /\ streak_lock = 0
    /\ streak_calls = [p \in StreakPairs |-> 0]
    /\ streak_resp = NoRequest
    /\ groups = <<>>
    /\ group_members = <<>>
    /\ group_resp = NoRequest

HabitNext ==
    \/ TrackHabitProgress
    \/ WalkSession
    \/ ReturnProgress
    \/ RespondHabitProgress

SpecHabit == InitHabit /\ [][HabitNext]_vars

-----------------------------------------------------------------------------
(* Properties of the habit tracker. *)

CompletedDates == {SessionDate(sessions[i]) : i \in {k \in 1..Len(sessions) : sessions[k].completed}}

\* The completed sessions fall on consecutive distinct dates, with no gap.
ConsecutiveDates(D) == D # {} /\ \A d \in D : d + 1 \in D \/ \A e \in D : e <= d

\* C9: a completed session sets the streak to 1 when it is the first, adds 1
\* when dated one day after the previous tracked date, leaves it unchanged on
\* the same date and resets it to 1 on any other date; so completed sessions
\* on n consecutive distinct dates give current_streak = n, days_completed = n
\* and is_on_track exactly when n >= 5.
C9_StreakWalk ==
    /\ [][(habit_pc = "walk" /\ h_idx' = h_idx + 1 /\ sessions[h_idx].completed) =>
            LET d == SessionDate(sessions[h_idx]) IN
            /\ last_date = NoDate => current_streak' = 1
            /\ (last_date # NoDate /\ d = last_date + 1) => current_streak' = current_streak + 1
            /\ (last_date # NoDate /\ d = last_date) => current_streak' = current_streak
            /\ (last_date # NoDate /\ d # last_date /\ d # last_date + 1) => current_streak' = 1
            /\ last_date' = d]_vars
    /\ []((habit_pc = "done" /\ ConsecutiveDates(CompletedDates)) =>
            /\ progress.current_streak = Cardinality(CompletedDates)
            /\ progress.days_completed = Cardinality(CompletedDates)
            /\ progress.is_on_track = (Cardinality(CompletedDates) >= 5))

\* Five completed sessions on five consecutive dates: streak 5, on track.
C9_Witness ==
    /\ habit_pc = "done"
    /\ Len(sessions) = 5
    /\ \A i \in 1..5 : sessions[i].completed
    /\ \A i \in 1..4 : SessionDate(sessions[i + 1]) = SessionDate(sessions[i]) + 1
    /\ progress.current_streak = 5
    /\ progress.days_completed = 5
    /\ progress.is_on_track

\* C10: the habit-progress request succeeds for every session log, the empty
\* one included: the rewards are computed from the returned progress without
\* error and the response is 200.
C10_HabitEndpointSucceeds ==
    habit_pc = "done" => http_status = 200

\* The log of the example: completed on a day, incomplete on the next day,
\* completed on the day after.
GapBridgedByIncomplete ==
    /\ Len(sessions) = 3
    /\ sessions[1].completed /\ ~sessions[2].completed /\ sessions[3].completed
    /\ SessionDate(sessions[2]) = SessionDate(sessions[1]) + 1
    /\ SessionDate(sessions[3]) = SessionDate(sessions[2]) + 1

\* C20 as stated: an incomplete session leaves the streak counter alone but
\* moves the "previous date" pointer to its date when that differs, so after
\* an incomplete row the pointer is that row's date; completed on day 1,
\* incomplete on day 2, completed on day 3 extends the streak on day 3.
C20_IncompleteMovesPointer ==
    /\ (habit_pc = "walk" /\ h_idx > 1 /\ ~sessions[h_idx - 1].completed) =>
         last_date = SessionDate(sessions[h_idx - 1])
    /\ (habit_pc = "done" /\ GapBridgedByIncomplete) => progress.current_streak = 2

\* C20 as amended: an incomplete session changes neither the streak counter
\* nor the "previous date" pointer; completed on day 1, incomplete on day 2,
\* completed on day 3 resets the streak to 1 on day 3, the previous date
\* being still day 1.
C20_IncompleteIgnored ==
    /\ [][(habit_pc = "walk" /\ h_idx' = h_idx + 1 /\ ~sessions[h_idx].completed) =>
            (current_streak' = current_streak /\ last_date' = last_date)]_vars
    /\ []((habit_pc = "done" /\ GapBridgedByIncomplete) => progress.current_streak = 1)

\* The example log, walked to the end: the streak is 1.
C20_Witness ==
    /\ habit_pc = "done"
    /\ GapBridgedByIncomplete
    /\ last_date = SessionDate(sessions[3])
    /\ progress.current_streak = 1

-----------------------------------------------------------------------------
(* Long session logs: one completed session a day, for up to MaxRun days. *)

\* n completed rows, one a day at noon from day 1 on; after row brk (if any)
\* a day is left out.
RunLog(n, brk) ==
    [i \in 1..n |->
       [created_at |-> At(IF brk > 0 /\ i > brk THEN i + 1 ELSE i, 720), completed |-> TRUE]]

InitHabitLong ==
    /\ google_service = FALSE
    /\ sched_op = "none"
    /\ call = NoCall
    /\ all_events = <<>>
    /\ recommendations = <<>>
    /\ sched_raised = FALSE
    /\ \E n \in 0..MaxRun, brk \in {0, 2} : sessions = RunLog(n, brk)
    /\ habit_pc = "idle"
    /\ h_idx = 0
    /\ current_streak = 0
    /\ last_date = NoDate
    /\ progress = EmptyDict
    /\ rewards = <<>>
    /\ http_status = 0
    /\ plan_call = NoPlan
    /\ suggestions = <<>>
    /\ plan_raised = FALSE
    /\ classified = NoClass
    /\ users = <<>>
    /\ login_session = EmptyDict
    /\ user_resp = NoRequest
    /\ study_sessions = <<>>
    /\ next_session_id = 1
    /\ calendar_events = <<>>
    /\ session_resp = NoRequest
    /\ streaks = <<>>
    /\ clock = 0
    /\ streak_reqs = [r \in 1..MaxRequests |-> NoStreakCall]
    /\ streak_lock = 0
    /\ streak_calls = [p \in StreakPairs |-> 0]
    /\ streak_resp = NoRequest
    /\ groups = <<>>
    /\ group_members = <<>>
    /\ group_resp = NoRequest

SpecHabitLong == InitHabitLong /\ [][HabitNext]_vars

\* C11: for every streak s computed from a non-empty log the returned dict has
\* days_completed = min(s, 70), days_remaining = max(0, 70 - days_completed),
\* progress_percentage = days_completed / 70 * 100, is_on_track = (s >= 5) and
\* milestone_reached = (days_completed >= 70); so days_completed +
\* days_remaining = 70 and 0 <= progress_percentage <= 100.
C11_DerivedFields ==
    (habit_pc \in {"tracked", "done"} /\ sessions # <<>>) =>
      LET s == current_streak
          num == progress.progress_percentage[1]
          den == progress.progress_percentage[2]
      IN
      /\ progress.current_streak = s
      /\ progress.days_completed = (IF s <= habit_formation_days THEN s ELSE habit_formation_days)
      /\ progress.days_remaining >= 0
      /\ progress.days_remaining >= habit_formation_days - progress.days_completed
      /\ progress.days_remaining = 0 \/
           progress.days_remaining = habit_formation_days - progress.days_completed
      /\ den > 0
      /\ num * habit_formation_days = progress.days_completed * 100 * den
      /\ progress.is_on_track = (s >= OnTrackStreak)
      /\ progress.milestone_reached = (progress.days_completed >= habit_formation_days)
      /\ progress.days_completed + progress.days_remaining = habit_formation_days
      /\ 0 <= num /\ num <= 100 * den

\* A streak longer than the target: capped at 70, nothing remaining, 100 %.
C11_Witness ==
    /\ habit_pc = "done"
    /\ current_streak > habit_formation_days
    /\ progress.days_completed = habit_formation_days
    /\ progress.days_remaining = 0
    /\ progress.milestone_reached
    /\ progress.progress_percentage[1] = 100 * progress.progress_percentage[2]

\* The prefix relation of two lists.
IsPrefix(a, b) == Len(a) <= Len(b) /\ a = SubSeq(b, 1, Len(a))

\* C12: get_milestone_rewards returns exactly the messages whose threshold is
\* met (current_streak >= 7, >= 21, >= 30, days_completed >= 50,
\* milestone_reached), in that order; a streak of 21 gives the 7-day then the
\* 21-day message and no other; and the list of every smaller streak is a
\* prefix of the list returned.
C12_MilestoneRewards ==
    (habit_pc = "done" /\ sessions # <<>>) =>
      LET s == progress.current_streak IN
      /\ http_status = 200
      /\ rewards = (IF s >= 7 THEN <<"7-day streak">> ELSE <<>>)
                   \o (IF s >= 21 THEN <<"21-day streak">> ELSE <<>>)
                   \o (IF s >= 30 THEN <<"30-day streak">> ELSE <<>>)
                   \o (IF progress.days_completed >= 50 THEN <<"50 days">> ELSE <<>>)
                   \o (IF progress.milestone_reached THEN <<"lasting habit">> ELSE <<>>)
      /\ s = 21 => rewards = <<"7-day streak", "21-day streak">>
      /\ \A t \in 0..s : IsPrefix(GetMilestoneRewards(HabitProgress(t)).rewards, rewards)

\* A streak of exactly 21.
C12_Witness ==
    /\ habit_pc = "done"
    /\ progress.current_streak = 21
    /\ rewards = <<"7-day streak", "21-day streak">>
    /\ http_status = 200

-----------------------------------------------------------------------------
(* SmartScheduler.suggest_study_sessions_from_work.  A text is the sequence *)
(* of its characters.                                                       *)

UpperCase == <<"A", "B", "C", "D", "E", "F", "G", "H", "I", "J", "K", "L", "M",
               "N", "O", "P", "Q", "R", "S", "T", "U", "V", "W", "X", "Y", "Z">>
LowerCase == <<"a", "b", "c", "d", "e", "f", "g", "h", "i", "j", "k", "l", "m",
               "n", "o", "p", "q", "r", "s", "t", "u", "v", "w", "x", "y", "z">>

\* str.lower()
Lower(text) ==
    [i \in 1..Len(text) |->
       IF \E k \in 1..26 : UpperCase[k] = text[i]
       THEN LowerCase[CHOOSE k \in 1..26 : UpperCase[k] = text[i]]
       ELSE text[i]]

\* word in text: word is a substring of text.
Contains(text, word) ==
    \E i \in 1..(Len(text) - Len(word) + 1) : SubSeq(text, i, i + Len(word) - 1) = word

\* any(word in work_lower for word in words)
AnyWordIn(words, work_lower) == \E k \in 1..Len(words) : Contains(work_lower, words[k])

ProblemSetWords ==
    <<<<"p", "s", "e", "t">>,
      <<"p", "r", "o", "b", "l", "e", "m", " ", "s", "e", "t">>,
      <<"h", "o", "m", "e", "w", "o", "r", "k">>,
      <<"a", "s", "s", "i", "g", "n", "m", "e", "n", "t">>>>
ExamWords ==
    <<<<"e", "x", "a", "m">>,
      <<"t", "e", "s", "t">>,
      <<"m", "i", "d", "t", "e", "r", "m">>,
      <<"f", "i", "n", "a", "l">>>>
ProjectWords ==
    <<<<"p", "r", "o", "j", "e", "c", "t">>,
      <<"p", "a", "p", "e", "r">>,
      <<"e", "s", "s", "a", "y">>,
      <<"r", "e", "p", "o", "r", "t">>>>
ReadingWords ==
    <<<<"r", "e", "a", "d">>,
      <<"r", "e", "a", "d", "i", "n", "g">>,
      <<"t", "e", "x", "t", "b", "o", "o", "k">>,
      <<"c", "h", "a", "p", "t", "e", "r">>>>
CodingWords ==
    <<<<"c", "o", "d", "e">>,
      <<"p", "r", "o", "g", "r", "a", "m", "m", "i", "n", "g">>,
      <<"d", "e", "b", "u", "g">>,
      <<"a", "l", "g", "o", "r", "i", "t", "h", "m">>>>
MathematicsWords ==
    <<<<"m", "a", "t", "h">>,
      <<"c", "a", "l", "c", "u", "l", "u", "s">>,
      <<"a", "l", "g", "e", "b", "r", "a">>,
      <<"s", "t", "a", "t", "i", "s", "t", "i", "c", "s">>>>
ScienceWords ==
    <<<<"p", "h", "y", "s", "i", "c", "s">>,
      <<"c", "h", "e", "m", "i", "s", "t", "r", "y">>,
      <<"b", "i", "o", "l", "o", "g", "y">>,
      <<"s", "c", "i", "e", "n", "c", "e">>>>
ComputerScienceWords ==
    <<<<"c", "s">>,
      <<"c", "o", "m", "p", "u", "t", "e", "r", " ", "s", "c", "i", "e", "n", "c", "e">>,
      <<"p", "r", "o", "g", "r", "a", "m", "m", "i", "n", "g">>,
      <<"c", "o", "d", "e">>>>
EnglishWords ==
    <<<<"e", "n", "g", "l", "i", "s", "h">>,
      <<"l", "i", "t", "e", "r", "a", "t", "u", "r", "e">>,
      <<"w", "r", "i", "t", "i", "n", "g">>,
      <<"e", "s", "s", "a", "y">>>>
HistoryWords ==
    <<<<"h", "i", "s", "t", "o", "r", "y">>,
      <<"s", "o", "c", "i", "a", "l", " ", "s", "t", "u", "d", "i", "e", "s">>,
      <<"p", "o", "l", "i", "t", "i", "c", "s">>>>

ClassifyTypeExamFirst(work_lower) ==
    IF AnyWordIn(ExamWords, work_lower)
    THEN [study_type |-> "Exam Preparation", duration |-> 240]
    ELSE IF AnyWordIn(ProblemSetWords, work_lower)
    THEN [study_type |-> "Problem Set", duration |-> 180]
    ELSE IF AnyWordIn(ProjectWords, work_lower)
    THEN [study_type |-> "Project Work", duration |-> 200]
    ELSE IF AnyWordIn(ReadingWords, work_lower)
    THEN [study_type |-> "Reading & Notes", duration |-> 90]
    ELSE IF AnyWordIn(CodingWords, work_lower)
    THEN [study_type |-> "Coding Practice", duration |-> 150]
    ELSE [study_type |-> "General Study", duration |-> 120]

\* The if/elif chain that sets study_type and duration.
ClassifyType(work_lower) ==
    IF AnyWordIn(ProblemSetWords, work_lower)
    THEN [study_type |-> "Problem Set", duration |-> 180]
    ELSE IF AnyWordIn(ExamWords, work_lower)
    THEN [study_type |-> "Exam Preparation", duration |-> 240]
    ELSE IF AnyWordIn(ProjectWords, work_lower)
    THEN [study_type |-> "Project Work", duration |-> 200]
    ELSE IF AnyWordIn(ReadingWords, work_lower)
    THEN [study_type |-> "Reading & Notes", duration |-> 90]
    ELSE IF AnyWordIn(CodingWords, work_lower)
    THEN [study_type |-> "Coding Practice", duration |-> 150]
    ELSE [study_type |-> "General Study", duration |-> 120]

\* The if/elif chain that sets subject.
ClassifySubject(work_lower) ==
    IF AnyWordIn(MathematicsWords, work_lower) THEN "Mathematics"
    ELSE IF AnyWordIn(ScienceWords, work_lower) THEN "Science"
    ELSE IF AnyWordIn(ComputerScienceWords, work_lower) THEN "Computer Science"
    ELSE IF AnyWordIn(EnglishWords, work_lower) THEN "English/Literature"
    ELSE IF AnyWordIn(HistoryWords, work_lower) THEN "History"
    ELSE "General"

\* datetime.isoformat() of a naive datetime.
Isoformat(t) == NaiveText(t)

\* datetime.now().replace(hour=hour, minute=0, second=0, microsecond=0)
TodayAt(now, hour) == DayStart(now) + hour * 60

PartsAllToday(work_description, study_type, subject, preferred_hours, now, num_sessions) ==
    [k \in 1..num_sessions |->
       LET i == k - 1
           hour == preferred_hours[(i % Len(preferred_hours)) + 1]
           start_time == TodayAt(now, hour)
           end_time == start_time + session_duration
       IN  [title |-> <<study_type, " - ", subject, " (Part ", ToString(i + 1), ")">>,
            description |-> <<"Study session for: ", work_description>>,
            start_time |-> Isoformat(start_time),
            end_time |-> Isoformat(end_time),
            duration_minutes |-> session_duration,
            subject |-> subject,
            type |-> study_type,
            confidence_score |-> SplitConfidence]]

PartsOneShort(work_description, study_type, subject, preferred_hours, now, num_sessions) ==
    [k \in 1..(num_sessions - 1) |->
       LET i == k - 1
           hour == preferred_hours[(i % Len(preferred_hours)) + 1]
           start_time == TodayAt(now, hour) + i * MinutesPerDay
           end_time == start_time + session_duration
       IN  [title |-> <<study_type, " - ", subject, " (Part ", ToString(i + 1), ")">>,
            description |-> <<"Study session for: ", work_description>>,
            start_time |-> Isoformat(start_time),
            end_time |-> Isoformat(end_time),
            duration_minutes |-> session_duration,
            subject |-> subject,
            type |-> study_type,
            confidence_score |-> SplitConfidence]]

\* The loop `for i in range(num_sessions)` of the split branch.
Parts(work_description, study_type, subject, preferred_hours, now, num_sessions) ==
    [k \in 1..num_sessions |->
       LET i == k - 1
           hour == preferred_hours[(i % Len(preferred_hours)) + 1]
           start_time == TodayAt(now, hour) + i * MinutesPerDay
           end_time == start_time + session_duration
       IN  [title |-> <<study_type, " - ", subject, " (Part ", ToString(i + 1), ")">>,
            description |-> <<"Study session for: ", work_description>>,
            start_time |-> Isoformat(start_time),
            end_time |-> Isoformat(end_time),
            duration_minutes |-> session_duration,
            subject |-> subject,
            type |-> study_type,
            confidence_score |-> SplitConfidence]]

SingleSessionTwoHours(work_description, study_type, subject, duration, preferred_hours, now) ==
    LET start_time == TodayAt(now, preferred_hours[1])
        end_time == start_time + session_duration
    IN  <<[title |-> <<study_type, " - ", subject>>,
           description |-> <<"Study session for: ", work_description>>,
           start_time |-> Isoformat(start_time),
           end_time |-> Isoformat(end_time),
           duration_minutes |-> session_duration,
           subject |-> subject,
           type |-> study_type,
           confidence_score |-> SingleConfidence]>>

\* The else branch: one session for the full duration.
SingleSession(work_description, study_type, subject, duration, preferred_hours, now) ==
    LET start_time == TodayAt(now, preferred_hours[1])
        end_time == start_time + duration
    IN  <<[title |-> <<study_type, " - ", subject>>,
           description |-> <<"Study session for: ", work_description>>,
           start_time |-> Isoformat(start_time),
           end_time |-> Isoformat(end_time),
           duration_minutes |-> duration,
           subject |-> subject,
           type |-> study_type,
           confidence_score |-> SingleConfidence]>>

\* suggest_study_sessions_from_work at the moment `now`.  An empty
\* preferred_study_hours raises (ZeroDivisionError in the split branch,
\* IndexError in the other).
SuggestStudySessionsFromWork(work_description, preferences, now) ==
    LET work_lower == Lower(work_description)
        kind == ClassifyType(work_lower)
        subject == ClassifySubject(work_lower)
        locals == [study_type |-> kind.study_type, duration |-> kind.duration, subject |-> subject]
        preferred_hours == Get(preferences, "preferred_study_hours", DefaultHours)
    IN  IF preferred_hours = <<>>
        THEN [raised |-> TRUE, sessions |-> <<>>, locals |-> locals]
        ELSE IF kind.duration > SplitAbove
        THEN [raised |-> FALSE,
              sessions |-> Parts(work_description, kind.study_type, subject, preferred_hours, now,
                                 Max(2, kind.duration \div session_duration)),
              locals |-> locals]
        ELSE [raised |-> FALSE,
              sessions |-> SingleSession(work_description, kind.study_type, subject,
                                         kind.duration, preferred_hours, now),
              locals |-> locals]

SmartSchedulerSuggestBusyAware(service, g_resp, work_description, preferences, now) ==
    LET r == SuggestStudySessionsFromWork(work_description, preferences, now)
        busy == GetGoogleEvents(service, g_resp)
    IN  [raised |-> r.raised,
         sessions |-> IF Len(busy) > 0 /\ Len(r.sessions) > 0 THEN Tail(r.sessions)
                      ELSE r.sessions,
         locals |-> r.locals,
         fetched |-> TRUE,
         google_service |-> service]

\* smart_scheduler.suggest_study_sessions_from_work as the route calls it:
\* the method of the SmartScheduler whose calendar has the handle `service`
\* and would be answered `g_resp` if it asked the remote calendar.  The
\* method never touches self.calendar: it makes no fetch and leaves the
\* handle as it is.
SmartSchedulerSuggest(service, g_resp, work_description, preferences, now) ==
    LET r == SuggestStudySessionsFromWork(work_description, preferences, now)
    IN  [raised |-> r.raised,
         sessions |-> r.sessions,
         locals |-> r.locals,
         fetched |-> FALSE,
         google_service |-> service]

\* What the remote calendar holds when the planner is called.
PlannerItemSeqs(now) ==
    LET day == now \div MinutesPerDay
    IN  {<<>>, <<TimedItem(day - 1)>>, <<AllDayItem(day - 1), TimedItem(day)>>}

(* Work descriptions. *)

PsetOnCalculus ==
    <<"I", " ", "n", "e", "e", "d", " ", "t", "o", " ", "f", "i", "n", "i", "s", "h", " ", "m", "y", " ", "p", "s", "e", "t", " ", "o", "n", " ", "c", "a", "l", "c", "u", "l", "u", "s">>
PhysicsExam ==
    <<"S", "t", "u", "d", "y", " ", "f", "o", "r", " ", "t", "h", "e", " ", "p", "h", "y", "s", "i", "c", "s", " ", "E", "X", "A", "M">>
Essay ==
    <<"e", "s", "s", "a", "y">>
ReadChapter ==
    <<"R", "e", "a", "d", " ", "c", "h", "a", "p", "t", "e", "r", " ", "3">>
DebugCode ==
    <<"d", "e", "b", "u", "g", " ", "m", "y", " ", "c", "o", "d", "e">>
LatestNews ==
    <<"l", "a", "t", "e", "s", "t", " ", "n", "e", "w", "s">>
WalkTheDog ==
    <<"w", "a", "l", "k", " ", "t", "h", "e", " ", "d", "o", "g">>
HistoryReport ==
    <<"h", "i", "s", "t", "o", "r", "y", " ", "r", "e", "p", "o", "r", "t">>

Phrases ==
    {PsetOnCalculus, PhysicsExam, Essay, ReadChapter, DebugCode, LatestNews, WalkTheDog,
     HistoryReport}

\* One phrase, or two joined by a comma.
WorkDescriptions == Phrases \cup {a \o <<",", " ">> \o b : a, b \in Phrases}

PlannerPreferences ==
    HourDicts \cup {[preferred_study_hours |-> <<>>], [preferred_study_hours |-> <<9, 14>>]}

\* POST /api/study-sessions/suggest up to the planner's return.
SuggestStudySessions ==
    /\ plan_call = NoPlan
    /\ \E work_description \in WorkDescriptions, preferences \in PlannerPreferences,
          now \in {At(0, 30), At(3, 960)} :
       \E g_resp \in GoogleResponses(google_service, PlannerItemSeqs(now)) :
         LET r == SmartSchedulerSuggest(google_service, g_resp, work_description,
                                        preferences, now)
         IN
         /\ plan_call' = [work_description |-> work_description, preferences |-> preferences,
                          now |-> now, g_resp |-> g_resp, fetched |-> r.fetched]
         /\ suggestions' = r.sessions
         /\ plan_raised' = r.raised
         /\ classified' = r.locals
         /\ google_service' = r.google_service
    /\ UNCHANGED <<sched_op, call, all_events, recommendations, sched_raised>>
    /\ UNCHANGED <<habit_vars, user_vars, session_vars, streak_vars, group_vars>>

\* The response is sent.
RespondSuggestions ==
    /\ plan_call # NoPlan
    /\ plan_call' = NoPlan
    /\ suggestions' = <<>>
    /\ plan_raised' = FALSE
    /\ classified' = NoClass
    /\ UNCHANGED <<sched_vars, habit_vars, user_vars, session_vars, streak_vars, group_vars>>

InitPlanner ==
    /\ google_service = FALSE
    /\ sched_op = "none"
    /\ call = NoCall
    /\ all_events = <<>>
    /\ recommendations = <<>>
    /\ sched_raised = FALSE
    /\ sessions = <<>>
    /\ habit_pc = "idle"
    /\ h_idx = 0
    /\ current_streak = 0
    /\ last_date = NoDate
    /\ progress = EmptyDict
    /\ rewards = <<>>
    /\ http_status = 0
    /\ plan_call = NoPlan
    /\ suggestions = <<>>
    /\ plan_raised = FALSE
    /\ classified = NoClass
    /\ users = <<>>
    /\ login_session = EmptyDict
    /\ user_resp = NoRequest
    /\ study_sessions = <<>>
    /\ next_session_id = 1
    /\ calendar_events = <<>>
    /\ session_resp = NoRequest
    /\ streaks = <<>>
    /\ clock = 0
    /\ streak_reqs = [r \in 1..MaxRequests |-> NoStreakCall]
    /\ streak_lock = 0
    /\ streak_calls = [p \in StreakPairs |-> 0]
    /\ streak_resp = NoRequest
    /\ groups = <<>>
    /\ group_members = <<>>
    /\ group_resp = NoRequest

PlannerNext ==
    \/ SuggestStudySessions
    \/ RespondSuggestions

SpecPlanner == InitPlanner /\ [][PlannerNext]_vars

\* The planner beside the calendar: authenticate_google may succeed or fail
\* between two planner calls.
PlannerCalendarNext ==
    \/ SuggestStudySessions
    \/ RespondSuggestions
    \/ AuthenticateGoogle
    \/ Respond

SpecPlannerCalendar == InitPlanner /\ [][PlannerCalendarNext]_vars

-----------------------------------------------------------------------------
(* Properties of the planner. *)

Planned == plan_call # NoPlan

PlanHours == Get(plan_call.preferences, "preferred_study_hours", DefaultHours)

\* The rules in priority order.
TypeTable ==
    <<[words |-> ProblemSetWords, study_type |-> "Problem Set", duration |-> 180],
      [words |-> ExamWords, study_type |-> "Exam Preparation", duration |-> 240],
      [words |-> ProjectWords, study_type |-> "Project Work", duration |-> 200],
      [words |-> ReadingWords, study_type |-> "Reading & Notes", duration |-> 90],
      [words |-> CodingWords, study_type |-> "Coding Practice", duration |-> 150]>>

SubjectTable ==
    <<[words |-> MathematicsWords, subject |-> "Mathematics"],
      [words |-> ScienceWords, subject |-> "Science"],
      [words |-> ComputerScienceWords, subject |-> "Computer Science"],
      [words |-> EnglishWords, subject |-> "English/Literature"],
      [words |-> HistoryWords, subject |-> "History"]>>

\* Rule r of a table matches the lower-cased text of the call.
Hit(table, r) ==
    \E k \in 1..Len(table[r].words) :
      Contains(Lower(plan_call.work_description), table[r].words[k])

\* The first rule of a table that matches (0 if none does).
FirstHit(table) ==
    IF \E r \in 1..Len(table) : Hit(table, r)
    THEN CHOOSE r \in 1..Len(table) : Hit(table, r) /\ \A q \in 1..(r - 1) : ~Hit(table, q)
    ELSE 0

C14_SessionSplit ==
    (Planned /\ PlanHours # <<>> /\ classified.duration > 180) =>
      LET total == classified.duration
          count == IF total \div 120 > 2 THEN total \div 120 ELSE 2
          today == plan_call.now \div MinutesPerDay
      IN
      /\ ~plan_raised
      /\ Len(suggestions) = count
      /\ \A i \in 0..(count - 1) :
           LET session == suggestions[i + 1]
               start == FromIsoformat(session.start_time)
               end == FromIsoformat(session.end_time)
           IN
           /\ session.duration_minutes = 120
           /\ session.confidence_score = 8
           /\ start.ok /\ ~start.aware
           /\ start.t = (today + i) * MinutesPerDay + PlanHours[(i % Len(PlanHours)) + 1] * 60
           /\ end.ok /\ end.t = start.t + 120
           /\ session.title = <<classified.study_type, " - ", classified.subject,
                                " (Part ", ToString(i + 1), ")">>

\* An exam with preferred hours [9, 14]: Part 1 today at 9, Part 2 tomorrow at 14.
C14_Witness ==
    /\ Planned
    /\ plan_call.work_description = PhysicsExam
    /\ PlanHours = <<9, 14>>
    /\ Len(suggestions) = 2
    /\ suggestions[1].title = <<"Exam Preparation", " - ", "Science", " (Part ", "1", ")">>
    /\ suggestions[2].title = <<"Exam Preparation", " - ", "Science", " (Part ", "2", ")">>
    /\ suggestions[1].start_time = NaiveText(DayStart(plan_call.now) + 9 * 60)
    /\ suggestions[2].start_time = NaiveText(DayStart(plan_call.now) + MinutesPerDay + 14 * 60)

\* C15: a classified duration of at most 180 minutes (180 included) gives
\* exactly one session, starting today at preferred_hours[0] with minute and
\* second zero, lasting the classified duration, with confidence 0.9; "I need
\* to finish my pset on calculus" gives Problem Set, Mathematics and one
\* session of 180 minutes.
C15_SingleSession ==
    (Planned /\ PlanHours # <<>> /\ classified.duration <= 180) =>
      /\ ~plan_raised
      /\ Len(suggestions) = 1
      /\ LET session == suggestions[1]
             start == FromIsoformat(session.start_time)
             end == FromIsoformat(session.end_time)
         IN
         /\ start.ok /\ ~start.aware
         /\ start.t = (plan_call.now \div MinutesPerDay) * MinutesPerDay + PlanHours[1] * 60
         /\ session.duration_minutes = classified.duration
         /\ end.ok /\ end.t = start.t + classified.duration
         /\ session.confidence_score = 9
         /\ session.title = <<classified.study_type, " - ", classified.subject>>
      /\ plan_call.work_description = PsetOnCalculus =>
           /\ suggestions[1].type = "Problem Set"
           /\ suggestions[1].subject = "Mathematics"
           /\ suggestions[1].duration_minutes = 180

\* The pset on calculus, called in the afternoon with the default hours: one
\* session of exactly 180 minutes at 09:00 of the same day.
C15_Witness ==
    /\ Planned
    /\ plan_call.work_description = PsetOnCalculus
    /\ "preferred_study_hours" \notin DOMAIN plan_call.preferences
    /\ classified.duration = 180
    /\ Len(suggestions) = 1
    /\ suggestions[1].duration_minutes = 180
    /\ suggestions[1].start_time = NaiveText(DayStart(plan_call.now) + 9 * 60)
    /\ suggestions[1].confidence_score = 9

\* The planned minutes: the sum of duration_minutes over the returned sessions.
RECURSIVE PlannedMinutes(_, _)
PlannedMinutes(plan, i) ==
    IF i > Len(plan) THEN 0 ELSE plan[i].duration_minutes + PlannedMinutes(plan, i + 1)

\* C23 as stated: the duration_minutes of the returned sessions sum to the
\* classified total duration (240 for Exam Preparation, 200 for Project Work,
\* the full duration in the single-session case).
C23_SumIsClassified ==
    (Planned /\ ~plan_raised) => PlannedMinutes(suggestions, 1) = classified.duration

\* C23, amended: the returned sessions sum to the classified total in the
\* single-session case, and to 120 * max(2, total // 120) in the split case:
\* 240 for Exam Preparation and also 240 for Project Work, 40 minutes more
\* than its classified 200.
C23_PlannedTotal ==
    (Planned /\ ~plan_raised) =>
      LET total == classified.duration
          planned == PlannedMinutes(suggestions, 1)
      IN  /\ total <= 180 => planned = total
          /\ total > 180 =>
               planned = 120 * (IF total \div 120 > 2 THEN total \div 120 ELSE 2)
          /\ classified.study_type = "Exam Preparation" => planned = 240 /\ total = 240
          /\ classified.study_type = "Project Work" => planned = 240 /\ total = 200
          /\ planned >= total

\* An essay: Project Work, classified 200 minutes, planned as two sessions
\* of 120.
C23_Witness ==
    /\ Planned
    /\ ~plan_raised
    /\ plan_call.work_description = Essay
    /\ classified.study_type = "Project Work"
    /\ classified.duration = 200
    /\ Len(suggestions) = 2
    /\ PlannedMinutes(suggestions, 1) = 240

-----------------------------------------------------------------------------
(* The study_sessions table and the remote calendar's events, as app.py    *)
(* writes and reads them.  The completed column holds 0 or 1.              *)

\* INSERT INTO study_sessions (...): completed takes its default, FALSE.
InsertSession(rows, id, data) ==
    Append(rows, [id |-> id, user_id |-> data.user_id, start_time |-> data.start_time,
                  end_time |-> data.end_time, subject |-> data.subject, completed |-> 0])

\* Some row has the id: the statement's rowcount is not 0.
HasRow(rows, id) == \E i \in 1..Len(rows) : rows[i].id = id

CompleteRowsToggle(rows, id) ==
    [i \in 1..Len(rows) |->
       IF rows[i].id = id THEN [rows[i] EXCEPT !.completed = 1 - rows[i].completed] ELSE rows[i]]

\* UPDATE study_sessions SET completed = TRUE ... WHERE id = ?
CompleteRows(rows, id) ==
    [i \in 1..Len(rows) |->
       IF rows[i].id = id THEN [rows[i] EXCEPT !.completed = 1] ELSE rows[i]]

\* DELETE FROM study_sessions WHERE id = ?
DeleteRows(rows, id) ==
    LET Other(row) == row.id # id IN SelectSeq(rows, Other)

\* create_google_event: without a handle it raises before any request; with
\* one, events().insert().execute() succeeds (remote_ok) or its failure is
\* raised again.  inserted is what the remote calendar gains.
CreateGoogleEvent(service, events, title, start_time, end_time, remote_ok) ==
    IF ~service \/ ~remote_ok
    THEN [raised |-> TRUE, event |-> EmptyDict, inserted |-> <<>>]
    ELSE LET body == [summary |-> title,
                      start |-> [dateTime |-> Isoformat(start_time.t)],
                      end |-> [dateTime |-> Isoformat(end_time.t)]]
         IN  [raised |-> FALSE,
              event |-> [id |-> Len(events) + 1, title |-> body.summary,
                         start |-> body.start.dateTime, end |-> body.end.dateTime,
                         source |-> "google"],
              inserted |-> <<body>>]

\* bool(row[10]) if row[10] is not None else False
AsBool(column) == column # 0

\* The rows of one user as get_user_study_sessions lists them.
RowsOfUser(rows, user_id) ==
    LET Mine(row) == row.user_id = user_id
        mine == SelectSeq(rows, Mine)
    IN  [i \in 1..Len(mine) |->
           [id |-> mine[i].id, subject |-> mine[i].subject, start_time |-> mine[i].start_time,
            end_time |-> mine[i].end_time, completed |-> AsBool(mine[i].completed)]]

\* ORDER BY start_time DESC: every order of the rows with non-increasing
\* start_time (rows of equal start_time come in either order).
OrderedByStartDesc(rs) ==
    {[i \in 1..Len(rs) |-> rs[q[i]]] :
       q \in {f \in [1..Len(rs) -> 1..Len(rs)] :
                /\ \A a, b \in 1..Len(rs) : a # b => f[a] # f[b]
                /\ \A a, b \in 1..Len(rs) :
                     a < b => rs[f[a]].start_time.t >= rs[f[b]].start_time.t}}

\* Bodies of POST /api/study-sessions.
SessionRequests ==
    LET Base(user_id, start) ==
          [user_id |-> user_id, start_time |-> NaiveText(start),
           end_time |-> NaiveText(start + DefaultStudyDuration), subject |-> Text(0)]
    IN  {Base(u, t) : u \in {1, 2}, t \in {At(1, 540), At(2, 540)}}
          \cup {Put(Base(1, At(1, 540)), "add_to_calendar", TRUE)}

AuthenticateCalendarClearing ==
    /\ \E type \in {"google", "outlook"}, success \in BOOLEAN :
         IF type = "google"
         THEN /\ google_service' = success
              /\ session_resp' = [op |-> "authenticate", status |-> 200,
                                  body |-> [success |-> success]]
         ELSE /\ google_service' = google_service
              /\ session_resp' = [op |-> "authenticate", status |-> 400,
                                  body |-> [error |-> "Unsupported calendar type"]]
    /\ UNCHANGED <<study_sessions, next_session_id, calendar_events>>
    /\ UNCHANGED <<sched_op, call, all_events, recommendations, sched_raised>>
    /\ UNCHANGED <<habit_vars, plan_vars, user_vars, streak_vars, group_vars>>

\* POST /api/calendar/authenticate
AuthenticateCalendar ==
    /\ \E type \in {"google", "outlook"}, success \in BOOLEAN :
         IF type = "google"
         THEN /\ google_service' = (IF success THEN TRUE ELSE google_service)
              /\ session_resp' = [op |-> "authenticate", status |-> 200,
                                  body |-> [success |-> success]]
         ELSE /\ google_service' = google_service
              /\ session_resp' = [op |-> "authenticate", status |-> 400,
                                  body |-> [error |-> "Unsupported calendar type"]]
    /\ UNCHANGED <<study_sessions, next_session_id, calendar_events>>
    /\ UNCHANGED <<sched_op, call, all_events, recommendations, sched_raised>>
    /\ UNCHANGED <<habit_vars, plan_vars, user_vars, streak_vars, group_vars>>

\* POST /api/study-sessions: the row is inserted and committed, then, if
\* add_to_calendar is set, the calendar event is attempted; an exception of
\* that attempt is caught and printed, and the response is the same 201.
CreateStudySession ==
    /\ next_session_id <= MaxRows
    /\ \E data \in SessionRequests, remote_ok \in BOOLEAN :
         LET session_id == next_session_id
             wanted == Get(data, "add_to_calendar", FALSE)
             made == CreateGoogleEvent(google_service, calendar_events, data.subject,
                                       FromIsoformat(data.start_time),
                                       FromIsoformat(data.end_time), remote_ok)
             google_event == IF wanted /\ ~made.raised THEN made.event ELSE NoneVal
         IN
         /\ study_sessions' = InsertSession(study_sessions, session_id, data)
         /\ next_session_id' = next_session_id + 1
         /\ calendar_events' = IF wanted THEN calendar_events \o made.inserted
                                          ELSE calendar_events
         /\ session_resp' = [op |-> "create", status |-> 201, data |-> data,
                             calendar_raised |-> wanted /\ made.raised,
                             calendar_before |-> calendar_events,
                             body |-> [id |-> session_id, user_id |-> data.user_id,
                                       start_time |-> data.start_time,
                                       end_time |-> data.end_time,
                                       subject |-> data.subject,
                                       google_event |-> google_event]]
    /\ UNCHANGED sched_vars
    /\ UNCHANGED <<habit_vars, plan_vars, user_vars, streak_vars, group_vars>>

\* PUT /api/study-sessions/<id>/complete
CompleteStudySession ==
    /\ \E session_id \in 1..(MaxRows + 1) :
         IF HasRow(study_sessions, session_id)
         THEN /\ study_sessions' = CompleteRows(study_sessions, session_id)
              /\ session_resp' = [op |-> "complete", status |-> 200, session_id |-> session_id]
         ELSE /\ study_sessions' = study_sessions
              /\ session_resp' = [op |-> "complete", status |-> 404, session_id |-> session_id]
    /\ UNCHANGED <<next_session_id, calendar_events>>
    /\ UNCHANGED sched_vars
    /\ UNCHANGED <<habit_vars, plan_vars, user_vars, streak_vars, group_vars>>

\* DELETE /api/study-sessions/<id>
DeleteStudySession ==
    /\ \E session_id \in 1..(MaxRows + 1) :
         IF HasRow(study_sessions, session_id)
         THEN /\ study_sessions' = DeleteRows(study_sessions, session_id)
              /\ session_resp' = [op |-> "delete", status |-> 200, session_id |-> session_id]
         ELSE /\ study_sessions' = study_sessions
              /\ session_resp' = [op |-> "delete", status |-> 404, session_id |-> session_id]
    /\ UNCHANGED <<next_session_id, calendar_events>>
    /\ UNCHANGED sched_vars
    /\ UNCHANGED <<habit_vars, plan_vars, user_vars, streak_vars, group_vars>>

\* GET /api/study-sessions/<user_id>
GetUserStudySessions ==
    /\ \E user_id \in {1, 2} :
         \E listed \in OrderedByStartDesc(RowsOfUser(study_sessions, user_id)) :
           session_resp' = [op |-> "query", status |-> 200, user_id |-> user_id,
                            sessions |-> listed]
    /\ UNCHANGED <<study_sessions, next_session_id, calendar_events>>
    /\ UNCHANGED sched_vars
    /\ UNCHANGED <<habit_vars, plan_vars, user_vars, streak_vars, group_vars>>

InitSessions ==
    /\ google_service = FALSE
    /\ sched_op = "none"
    /\ call = NoCall
    /\ all_events = <<>>
    /\ recommendations = <<>>
    /\ sched_raised = FALSE
    /\ sessions = <<>>
    /\ habit_pc = "idle"
    /\ h_idx = 0
    /\ current_streak = 0
    /\ last_date = NoDate
    /\ progress = EmptyDict
    /\ rewards = <<>>
    /\ http_status = 0
    /\ plan_call = NoPlan
    /\ suggestions = <<>>
    /\ plan_raised = FALSE
    /\ classified = NoClass
    /\ users = <<>>
    /\ login_session = EmptyDict
    /\ user_resp = NoRequest
    /\ study_sessions = <<>>
    /\ next_session_id = 1
    /\ calendar_events = <<>>
    /\ session_resp = NoRequest
    /\ streaks = <<>>
    /\ clock = 0
    /\ streak_reqs = [r \in 1..MaxRequests |-> NoStreakCall]
    /\ streak_lock = 0
    /\ streak_calls = [p \in StreakPairs |-> 0]
    /\ streak_resp = NoRequest
    /\ groups = <<>>
    /\ group_members = <<>>
    /\ group_resp = NoRequest

SessionsNext ==
    \/ AuthenticateCalendar
    \/ CreateStudySession
    \/ CompleteStudySession
    \/ DeleteStudySession
    \/ GetUserStudySessions

SpecSessions == InitSessions /\ [][SessionsNext]_vars

-----------------------------------------------------------------------------
(* Properties of the study-session requests. *)

\* C16: creating a remote-calendar event without a prior successful
\* authentication fails explicitly: create_google_event raises and inserts no
\* event, and the response to the session creation that asked for the event
\* (add_to_calendar) reports the failure: an error status or an error field,
\* not the response of a creation that succeeded.
C16_CalendarFailureReported ==
    (/\ session_resp.op = "create"
     /\ Get(session_resp.data, "add_to_calendar", FALSE)
     /\ ~google_service)
    => /\ session_resp.calendar_raised
       /\ calendar_events = session_resp.calendar_before
       /\ \/ session_resp.status >= 400
          \/ "error" \in DOMAIN session_resp.body

\* The row with this id reads as completed.
ReadsCompleted(rows, id) == \E i \in 1..Len(rows) : rows[i].id = id /\ AsBool(rows[i].completed)

\* C19: PUT complete on an existing session id returns 200 and leaves that
\* session completed, also when it already was; on an id that does not exist
\* it returns 404 and changes no session; a completed session stays
\* completed for as long as it exists; and every query lists each session of
\* the user with the completed value the table holds.
C19_CompletedUntilDeleted ==
    /\ [][session_resp'.op = "complete" =>
            LET id == session_resp'.session_id IN
            IF HasRow(study_sessions, id)
            THEN /\ session_resp'.status = 200
                 /\ ReadsCompleted(study_sessions', id)
                 /\ Len(study_sessions') = Len(study_sessions)
                 /\ \A i \in 1..Len(study_sessions) :
                      study_sessions[i].id # id => study_sessions'[i] = study_sessions[i]
            ELSE /\ session_resp'.status = 404
                 /\ study_sessions' = study_sessions]_vars
    /\ [][\A id \in 1..(MaxRows + 1) :
            (ReadsCompleted(study_sessions, id) /\ HasRow(study_sessions', id))
              => ReadsCompleted(study_sessions', id)]_vars
    /\ [](session_resp.op = "query" =>
            /\ \A i \in 1..Len(session_resp.sessions) :
                 /\ HasRow(study_sessions, session_resp.sessions[i].id)
                 /\ session_resp.sessions[i].completed
                      = ReadsCompleted(study_sessions, session_resp.sessions[i].id)
            /\ \A k \in 1..Len(study_sessions) :
                 study_sessions[k].user_id = session_resp.user_id =>
                   \E i \in 1..Len(session_resp.sessions) :
                     session_resp.sessions[i].id = study_sessions[k].id)

\* A query that lists a completed session beside one that is not, after an
\* earlier session was deleted.
C19_Witness ==
    /\ session_resp.op = "query"
    /\ Len(session_resp.sessions) = 2
    /\ session_resp.sessions[1].completed # session_resp.sessions[2].completed
    /\ Len(study_sessions) < next_session_id - 1

-----------------------------------------------------------------------------
(* The users table and the login session. *)

\* hash_password: "salt:sha256(password + salt)" with a fresh salt.
HashPassword(password, salt) == [salt |-> salt, digest |-> <<password, salt>>]

\* 'default:needs_reset': no password hashes to it.
DefaultHash == [salt |-> "default", digest |-> <<"needs_reset">>]

\* verify_password
VerifyPassword(password, stored_hash) == <<password, stored_hash.salt>> = stored_hash.digest

IntegrityErrorUsernameOnly(rows, username, email) ==
    \E i \in 1..Len(rows) : rows[i].username = username

\* username TEXT UNIQUE NOT NULL, email TEXT UNIQUE NOT NULL: the INSERT
\* raises sqlite3.IntegrityError when a row has the username or the email.
IntegrityError(rows, username, email) ==
    \E i \in 1..Len(rows) : rows[i].username = username \/ rows[i].email = email

\* Bodies of POST /api/users.
UserRequests ==
    {[username |-> "ann"], [email |-> "a@x"]}
      \cup {[username |-> u, email |-> e] : u \in {"ann", "bob"}, e \in {"a@x", "b@x"}}
      \cup {[username |-> u, email |-> e, password |-> w] :
               u \in {"ann", "bob"}, e \in {"a@x", "b@x"}, w \in {"", "pw"}}

\* Bodies of POST /api/auth/login.
LoginRequests ==
    {[email |-> "a@x"]}
      \cup {[email |-> e, password |-> w] : e \in {"a@x", "b@x"}, w \in {"pw", "guess"}}

\* POST /api/users
CreateUser ==
    /\ \E data \in UserRequests, salt \in {"salt1"} :
         IF ~({"username", "email"} \subseteq DOMAIN data)
         THEN /\ user_resp' = [op |-> "create_user", status |-> 400, data |-> data]
              /\ UNCHANGED <<users, login_session>>
         ELSE LET password_hash == IF "password" \in DOMAIN data /\ data.password # ""
                                   THEN HashPassword(data.password, salt)
                                   ELSE DefaultHash
                  user_id == Len(users) + 1
              IN  IF IntegrityError(users, data.username, data.email)
                  THEN /\ user_resp' = [op |-> "create_user", status |-> 400, data |-> data]
                       /\ UNCHANGED <<users, login_session>>
                  ELSE /\ users' = Append(users,
                                          [id |-> user_id, username |-> data.username,
                                           email |-> data.email,
                                           password_hash |-> password_hash,
                                           preferences |->
                                             JsonDumps(Get(data, "preferences", EmptyDict))])
                       /\ login_session' = [user_id |-> user_id, username |-> data.username]
                       /\ user_resp' = [op |-> "create_user", status |-> 201, data |-> data]
    /\ UNCHANGED <<sched_vars, habit_vars, plan_vars, session_vars, streak_vars, group_vars>>

\* POST /api/auth/login
Login ==
    /\ \E data \in LoginRequests :
         IF ~({"email", "password"} \subseteq DOMAIN data)
         THEN /\ user_resp' = [op |-> "login", status |-> 400, data |-> data]
              /\ UNCHANGED login_session
         ELSE IF \E i \in 1..Len(users) :
                   users[i].email = data.email
                     /\ VerifyPassword(data.password, users[i].password_hash)
              THEN LET user == users[CHOOSE i \in 1..Len(users) : users[i].email = data.email]
                   IN  /\ login_session' = [user_id |-> user.id, username |-> user.username]
                       /\ user_resp' = [op |-> "login", status |-> 200, data |-> data]
              ELSE /\ user_resp' = [op |-> "login", status |-> 401, data |-> data]
                   /\ UNCHANGED login_session
    /\ UNCHANGED users
    /\ UNCHANGED <<sched_vars, habit_vars, plan_vars, session_vars, streak_vars, group_vars>>

\* POST /api/auth/logout
Logout ==
    /\ login_session' = EmptyDict
    /\ user_resp' = [op |-> "logout", status |-> 200]
    /\ UNCHANGED users
    /\ UNCHANGED <<sched_vars, habit_vars, plan_vars, session_vars, streak_vars, group_vars>>

InitUsers ==
    /\ google_service = FALSE
    /\ sched_op = "none"
    /\ call = NoCall
    /\ all_events = <<>>
    /\ recommendations = <<>>
    /\ sched_raised = FALSE
    /\ sessions = <<>>
    /\ habit_pc = "idle"
    /\ h_idx = 0
    /\ current_streak = 0
    /\ last_date = NoDate
    /\ progress = EmptyDict
    /\ rewards = <<>>
    /\ http_status = 0
    /\ plan_call = NoPlan
    /\ suggestions = <<>>
    /\ plan_raised = FALSE
    /\ classified = NoClass
    /\ users = <<>>
    /\ login_session = EmptyDict
    /\ user_resp = NoRequest
    /\ study_sessions = <<>>
    /\ next_session_id = 1
    /\ calendar_events = <<>>
    /\ session_resp = NoRequest
    /\ streaks = <<>>
    /\ clock = 0
    /\ streak_reqs = [r \in 1..MaxRequests |-> NoStreakCall]
    /\ streak_lock = 0
    /\ streak_calls = [p \in StreakPairs |-> 0]
    /\ streak_resp = NoRequest
    /\ groups = <<>>
    /\ group_members = <<>>
    /\ group_resp = NoRequest

UsersNext ==
    \/ CreateUser
    \/ Login
    \/ Logout

SpecUsers == InitUsers /\ [][UsersNext]_vars

\* C18: a create_user whose username or email equals that of an existing user
\* returns 400, adds no row and changes neither the stored users nor the
\* login session; usernames and emails stay unique.
C18_DuplicateUsersRejected ==
    /\ [][(/\ user_resp'.op = "create_user"
            /\ {"username", "email"} \subseteq DOMAIN user_resp'.data
            /\ \E i \in 1..Len(users) :
                 \/ users[i].username = user_resp'.data.username
                 \/ users[i].email = user_resp'.data.email)
           => (/\ user_resp'.status = 400
               /\ users' = users
               /\ login_session' = login_session)]_vars
    /\ [](\A i, j \in 1..Len(users) :
             i # j => (users[i].username # users[j].username /\ users[i].email # users[j].email))

\* With two users stored and the first logged in again, a request with a new
\* pair made of one's username and the other's email was rejected.
C18_Witness ==
    /\ user_resp.op = "create_user"
    /\ user_resp.status = 400
    /\ Len(users) = 2
    /\ {"username", "email"} \subseteq DOMAIN user_resp.data
    /\ \E i, j \in 1..2 :
         /\ i # j
         /\ users[i].username = user_resp.data.username
         /\ users[j].email = user_resp.data.email
    /\ login_session = [user_id |-> 1, username |-> users[1].username]

-----------------------------------------------------------------------------
(* The streaks table and DashboardManager.update_streak.  Each call opens  *)
(* its own connection; a write is visible to the others once committed.    *)

\* WHERE user_id = ? AND group_id = ?: with group_id None the comparison
\* group_id = NULL is true of no row.
MatchingStreaks(rows, user_id, group_id) ==
    {i \in 1..Len(rows) :
       rows[i].user_id = user_id /\ group_id # NoGroup /\ rows[i].group_id = group_id}

\* SELECT id, current_streak, longest_streak ... then fetchone(): the first
\* matching row in id order, or None.
SelectStreak(rows, user_id, group_id) ==
    LET found == MatchingStreaks(rows, user_id, group_id) IN
    IF found = {} THEN NoneVal
    ELSE LET row == rows[CHOOSE i \in found : \A j \in found : i <= j]
         IN  [id |-> row.id, current_streak |-> row.current_streak,
              longest_streak |-> row.longest_streak]

\* The UPDATE ... WHERE id = ? or the INSERT the call executes for what its
\* SELECT fetched, and the commit.
WriteStreak(rows, streak, user_id, group_id, now) ==
    IF streak # NoneVal
    THEN LET new_streak == streak.current_streak + 1
             new_longest == Max(streak.longest_streak, new_streak)
         IN  [i \in 1..Len(rows) |->
                IF rows[i].id = streak.id
                THEN [rows[i] EXCEPT !.current_streak = new_streak,
                                     !.longest_streak = new_longest,
                                     !.last_activity = now]
                ELSE rows[i]]
    ELSE Append(rows, [id |-> Len(rows) + 1, user_id |-> user_id, group_id |-> group_id,
                       current_streak |-> 1, longest_streak |-> 1, last_activity |-> now])

\* The update_streak calls that returned True so far.
RECURSIVE SumCalls(_)
SumCalls(pairs) ==
    IF pairs = {} THEN 0
    ELSE LET p == CHOOSE q \in pairs : TRUE IN streak_calls[p] + SumCalls(pairs \ {p})

InFlight == {r \in 1..MaxRequests : streak_reqs[r].pc # "idle"}

\* POST /api/streaks/<user_id>/update with no other request in flight:
\* update_streak from its SELECT to its commit, and the response.
UpdateStreak ==
    /\ InFlight = {}
    /\ SumCalls(StreakPairs) < MaxCalls
    /\ \E p \in StreakPairs :
         LET user_id == p[1]
             group_id == p[2]
             streak == SelectStreak(streaks, user_id, group_id)
             written == WriteStreak(streaks, streak, user_id, group_id, clock)
             id == IF streak # NoneVal THEN streak.id ELSE Len(written)
         IN  /\ streaks' = written
             /\ streak_calls' = [streak_calls EXCEPT ![p] = @ + 1]
             /\ streak_resp' = [op |-> "update_streak", status |-> 200,
                                user_id |-> user_id, group_id |-> group_id,
                                now |-> clock, found |-> streak # NoneVal,
                                before |-> IF streak # NoneVal THEN streaks[id]
                                           ELSE written[id],
                                after |-> written[id]]
    /\ UNCHANGED <<clock, streak_reqs, streak_lock>>
    /\ UNCHANGED <<sched_vars, habit_vars, plan_vars, user_vars, session_vars, group_vars>>

\* A day passes.
Tick ==
    /\ clock < MaxDay
    /\ clock' = clock + 1
    /\ UNCHANGED <<streaks, streak_reqs, streak_lock, streak_calls, streak_resp>>
    /\ UNCHANGED <<sched_vars, habit_vars, plan_vars, user_vars, session_vars, group_vars>>

\* A request arrives on connection r: connect, SELECT, fetchone, now.
StreakSelect(r) ==
    /\ streak_reqs[r].pc = "idle"
    /\ SumCalls(StreakPairs) + Cardinality(InFlight) < MaxCalls
    /\ \E p \in StreakPairs :
         streak_reqs' = [streak_reqs EXCEPT ![r] =
                           [pc |-> "selected", user_id |-> p[1], group_id |-> p[2],
                            streak |-> SelectStreak(streaks, p[1], p[2]), now |-> clock,
                            ok |-> FALSE]]
    /\ UNCHANGED <<streaks, clock, streak_lock, streak_calls, streak_resp>>
    /\ UNCHANGED <<sched_vars, habit_vars, plan_vars, user_vars, session_vars, group_vars>>

\* The UPDATE or INSERT is executed: it opens the connection's transaction
\* and takes the write lock, waiting while another connection holds it.
StreakExecute(r) ==
    /\ streak_reqs[r].pc = "selected"
    /\ streak_lock = 0
    /\ streak_lock' = r
    /\ streak_reqs' = [streak_reqs EXCEPT ![r].pc = "executed"]
    /\ UNCHANGED <<streaks, clock, streak_calls, streak_resp>>
    /\ UNCHANGED <<sched_vars, habit_vars, plan_vars, user_vars, session_vars, group_vars>>

\* The wait for the write lock times out ("database is locked"): the except
\* branch returns False and nothing is written.
StreakTimeout(r) ==
    /\ streak_reqs[r].pc = "selected"
    /\ streak_lock \notin {0, r}
    /\ streak_reqs' = [streak_reqs EXCEPT ![r].pc = "returned", ![r].ok = FALSE]
    /\ UNCHANGED <<streaks, clock, streak_lock, streak_calls, streak_resp>>
    /\ UNCHANGED <<sched_vars, habit_vars, plan_vars, user_vars, session_vars, group_vars>>

\* conn.commit(): the write becomes visible and the lock is released;
\* update_streak returns True.
StreakCommit(r) ==
    /\ streak_reqs[r].pc = "executed"
    /\ streaks' = WriteStreak(streaks, streak_reqs[r].streak, streak_reqs[r].user_id,
                              streak_reqs[r].group_id, streak_reqs[r].now)
    /\ streak_lock' = 0
    /\ streak_reqs' = [streak_reqs EXCEPT ![r].pc = "returned", ![r].ok = TRUE]
    /\ UNCHANGED <<clock, streak_calls, streak_resp>>
    /\ UNCHANGED <<sched_vars, habit_vars, plan_vars, user_vars, session_vars, group_vars>>

\* The route answers 200 when update_streak returned True and 500 otherwise.
StreakReturn(r) ==
    /\ streak_reqs[r].pc = "returned"
    /\ streak_calls' = IF streak_reqs[r].ok
                       THEN [streak_calls EXCEPT
                               ![<<streak_reqs[r].user_id, streak_reqs[r].group_id>>] = @ + 1]
                       ELSE streak_calls
    /\ streak_resp' = [op |-> "update_streak",
                       status |-> IF streak_reqs[r].ok THEN 200 ELSE 500,
                       user_id |-> streak_reqs[r].user_id,
                       group_id |-> streak_reqs[r].group_id]
    /\ streak_reqs' = [streak_reqs EXCEPT ![r] = NoStreakCall]
    /\ UNCHANGED <<streaks, clock, streak_lock>>
    /\ UNCHANGED <<sched_vars, habit_vars, plan_vars, user_vars, session_vars, group_vars>>

InitSocial ==
    /\ google_service = FALSE
    /\ sched_op = "none"
    /\ call = NoCall
    /\ all_events = <<>>
    /\ recommendations = <<>>
    /\ sched_raised = FALSE
    /\ sessions = <<>>
    /\ habit_pc = "idle"
    /\ h_idx = 0
    /\ current_streak = 0
    /\ last_date = NoDate
    /\ progress = EmptyDict
    /\ rewards = <<>>
    /\ http_status = 0
    /\ plan_call = NoPlan
    /\ suggestions = <<>>
    /\ plan_raised = FALSE
    /\ classified = NoClass
    /\ users = <<>>
    /\ login_session = EmptyDict
    /\ user_resp = NoRequest
    /\ study_sessions = <<>>
    /\ next_session_id = 1
    /\ calendar_events = <<>>
    /\ session_resp = NoRequest
    /\ streaks = <<>>
    /\ clock = 0
    /\ streak_reqs = [r \in 1..MaxRequests |-> NoStreakCall]
    /\ streak_lock = 0
    /\ streak_calls = [p \in StreakPairs |-> 0]
    /\ streak_resp = NoRequest
    /\ groups = <<>>
    /\ group_members = <<>>
    /\ group_resp = NoRequest

StreaksNext ==
    \/ UpdateStreak
    \/ Tick

SpecStreaks == InitSocial /\ [][StreaksNext]_vars

StreaksConcurrentNext ==
    \/ \E r \in 1..MaxRequests : StreakSelect(r)
    \/ \E r \in 1..MaxRequests : StreakExecute(r)
    \/ \E r \in 1..MaxRequests : StreakTimeout(r)
    \/ \E r \in 1..MaxRequests : StreakCommit(r)
    \/ \E r \in 1..MaxRequests : StreakReturn(r)

SpecStreaksConcurrent == InitSocial /\ [][StreaksConcurrentNext]_vars

-----------------------------------------------------------------------------
(* Properties of the stored streaks. *)

\* C26: the stored streak counts consecutive days and resets on a gap: a call
\* made more than one day after the row's last_activity sets current_streak
\* to 1, and a call on the day of the row's last_activity (a second call of
\* that day) does not raise current_streak again.
C26_ResetsOnGap ==
    (streak_resp.op = "update_streak" /\ streak_resp.status = 200 /\ streak_resp.found) =>
      /\ streak_resp.now - streak_resp.before.last_activity > 1 =>
           streak_resp.after.current_streak = 1
      /\ streak_resp.now = streak_resp.before.last_activity =>
           streak_resp.after.current_streak = streak_resp.before.current_streak

\* C27: there is at most one streak row per (user_id, group_id) pair, the
\* pair with group_id None included; a pair's row is created with
\* current_streak = longest_streak = 1 and later calls update that row,
\* keeping longest_streak >= current_streak.
C27_OneRowPerPair ==
    /\ \A i, j \in 1..Len(streaks) :
         (streaks[i].user_id = streaks[j].user_id /\ streaks[i].group_id = streaks[j].group_id)
           => i = j
    /\ \A i \in 1..Len(streaks) : streaks[i].longest_streak >= streaks[i].current_streak
    /\ (streak_resp.op = "update_streak" /\ ~streak_resp.found) =>
         streak_resp.after.current_streak = 1 /\ streak_resp.after.longest_streak = 1

\* C28: no update_streak call is lost: once the requests in flight have been
\* answered, the current_streak of a pair is the number of calls for the pair
\* that returned True (each such call left it one higher), however their
\* SELECT and UPDATE/INSERT steps were interleaved.
C28_NoLostUpdate ==
    InFlight = {} =>
      \A p \in StreakPairs :
        (p[2] # NoGroup /\ streak_calls[p] > 0) =>
          LET streak == SelectStreak(streaks, p[1], p[2]) IN
          /\ streak # NoneVal
          /\ streak.current_streak = streak_calls[p]

-----------------------------------------------------------------------------
(* The groups and group_members tables, as app.py writes and reads them. *)

\* sqlite3.IntegrityError of INSERT INTO group_members (group_id, user_id):
\* the table of init_db declares no UNIQUE, NOT NULL or CHECK constraint, and
\* the connection does not enable foreign keys, so no row is refused.
JoinIntegrityError(rows, group_id, user_id) == FALSE

\* POST /api/groups: the group row, then its creator as a member.
CreateGroup ==
    /\ Len(groups) < MaxGroups
    /\ Len(group_members) < MaxMembers
    /\ \E created_by \in {1, 2} :
         LET group_id == Len(groups) + 1 IN
         /\ groups' = Append(groups, [id |-> group_id, created_by |-> created_by])
         /\ group_members' = Append(group_members,
                                    [id |-> Len(group_members) + 1, group_id |-> group_id,
                                     user_id |-> created_by])
         /\ group_resp' = [op |-> "create_group", status |-> 201, group_id |-> group_id,
                           user_id |-> created_by]
    /\ UNCHANGED <<sched_vars, habit_vars, plan_vars, user_vars, session_vars, streak_vars>>

\* POST /api/groups/<group_id>/join
JoinGroup ==
    /\ Len(group_members) < MaxMembers
    /\ \E group_id \in 1..MaxGroups, user_id \in {1, 2} :
         LET was_member == \E i \in 1..Len(group_members) :
                               /\ group_members[i].group_id = group_id
                               /\ group_members[i].user_id = user_id
         IN
         IF JoinIntegrityError(group_members, group_id, user_id)
         THEN /\ group_resp' = [op |-> "join_group", status |-> 400, group_id |-> group_id,
                                user_id |-> user_id, was_member |-> was_member,
                                error |-> "Already a member of this group"]
              /\ UNCHANGED group_members
         ELSE /\ group_members' = Append(group_members,
                                         [id |-> Len(group_members) + 1,
                                          group_id |-> group_id, user_id |-> user_id])
              /\ group_resp' = [op |-> "join_group", status |-> 200, group_id |-> group_id,
                                user_id |-> user_id, was_member |-> was_member,
                                message |-> "Successfully joined group"]
    /\ UNCHANGED groups
    /\ UNCHANGED <<sched_vars, habit_vars, plan_vars, user_vars, session_vars, streak_vars>>

\* GET /api/groups/<group_id>: member_count is COUNT(gm.user_id) over the
\* joined membership rows of the group.
GetGroup ==
    /\ \E group_id \in 1..(MaxGroups + 1) :
         IF group_id <= Len(groups)
         THEN group_resp' = [op |-> "get_group", status |-> 200, group_id |-> group_id,
                             member_count |->
                               Cardinality({i \in 1..Len(group_members) :
                                              group_members[i].group_id = group_id})]
         ELSE group_resp' = [op |-> "get_group", status |-> 404, group_id |-> group_id,
                             error |-> "Group not found"]
    /\ UNCHANGED <<groups, group_members>>
    /\ UNCHANGED <<sched_vars, habit_vars, plan_vars, user_vars, session_vars, streak_vars>>

GroupsNext ==
    \/ CreateGroup
    \/ JoinGroup
    \/ GetGroup

SpecGroups == InitSocial /\ [][GroupsNext]_vars

-----------------------------------------------------------------------------
(* Properties of group membership. *)

\* C29: a join_group request by a user who is already a member of the group
\* is answered 400 and adds no membership row; each (group, user) pair is in
\* group_members at most once; and member_count is the number of distinct
\* users of the group.
C29_MembershipUnique ==
    /\ (group_resp.op = "join_group" /\ group_resp.was_member) => group_resp.status = 400
    /\ \A i, j \in 1..Len(group_members) :
         (group_members[i].group_id = group_members[j].group_id
            /\ group_members[i].user_id = group_members[j].user_id) => i = j
    /\ (group_resp.op = "get_group" /\ group_resp.status = 200) =>
         group_resp.member_count
           = Cardinality({group_members[i].user_id :
                            i \in {k \in 1..Len(group_members) :
                                     group_members[k].group_id = group_resp.group_id}})

-----------------------------------------------------------------------------
(* The calendar handle across authenticate_google, get_google_events and   *)
(* create_google_event.                                                    *)

\* calendar_integration.get_google_events(start_time, end_time), answered
\* g_resp by the remote calendar if a request is made.
GetGoogleEventsCall ==
    /\ sched_op = "none"
    /\ \E start \in {At(0, 0), At(3, 960)} :
      LET day == start \div MinutesPerDay
          end == start + DefaultDaysAhead * MinutesPerDay
          items == {TimedItem(day), AllDayItem(day), NoStartItem(day)}
      IN
      \E g_resp \in GoogleResponses(google_service, SeqsUpTo(items, 1)) :
        /\ sched_op' = "google_events"
        /\ call' = [NoCall EXCEPT !.start_time = start, !.end_time = end, !.g_resp = g_resp]
        /\ all_events' = GetGoogleEvents(google_service, g_resp)
        /\ recommendations' = <<>>
        /\ sched_raised' = FALSE
        /\ UNCHANGED <<google_service>>
        /\ UNCHANGED habit_vars
        /\ UNCHANGED <<plan_vars, user_vars, session_vars, streak_vars, group_vars>>

CalendarAuthNext ==
    \/ AuthenticateCalendar
    \/ GetGoogleEventsCall
    \/ CreateStudySession
    \/ Respond

SpecCalendarAuth == InitSessions /\ [][CalendarAuthNext]_vars

\* C30: the calendar handle changes only in an authenticate_google call that
\* returns True, which sets it (a call that returns False, get_google_events
\* and create_google_event leave it as it was); while no authentication has
\* succeeded, get_google_events returns [] whatever the remote calendar
\* would answer, and create_google_event raises and inserts nothing.
C30_AuthenticationState ==
    /\ [][google_service' # google_service =>
            /\ google_service'
            /\ session_resp'.op = "authenticate"
            /\ session_resp'.status = 200
            /\ session_resp'.body.success]_vars
    /\ []((sched_op = "google_events" /\ ~google_service) =>
            /\ all_events = <<>>
            /\ ~call.g_resp.ok
            /\ \A items \in SeqsUpTo({TimedItem(0), AllDayItem(0)}, 1) :
                 GetGoogleEvents(google_service, [ok |-> TRUE, items |-> items]) = <<>>)
    /\ []((session_resp.op = "create" /\ Get(session_resp.data, "add_to_calendar", FALSE)
             /\ ~google_service) =>
            /\ session_resp.calendar_raised
            /\ session_resp.body.google_event = NoneVal
            /\ calendar_events = session_resp.calendar_before)

\* No authentication has succeeded: an event creation has raised, and a
\* later get_google_events has answered with the empty list.
C30_Witness ==
    /\ ~google_service
    /\ sched_op = "google_events"
    /\ all_events = <<>>
    /\ session_resp.op = "create"
    /\ session_resp.calendar_raised
    /\ calendar_events = <<>>

====
